---- MODULE Spec2Model ----
(***************************************************************************)
(* Model of the multi-LLM evaluation engine of doc_analyzer:               *)
(*   - RateLimiter            (app/services/rate_limiter.py)               *)
(*   - LLMEvaluator           (app/services/llm_evaluator.py)              *)
(*   - AIClassifier           (app/services/ai_classifier.py)              *)
(*   - the batch loops        (app/routers/evaluations.py, scheduler.py)   *)
(* Each component has its own specification (SpecRL, ...); the variables   *)
(* of the other components stay at their initial value under it.           *)
(***************************************************************************)
EXTENDS Integers, Sequences, FiniteSets, TLC

VARIABLES
    \* ---- RateLimiter (one instance, one caller) ----
    now,          \* the wall clock, in ticks (datetime.now())
    max_calls,    \* RateLimiter.max_calls
    time_window,  \* RateLimiter.time_window, in ticks
    calls,        \* RateLimiter.calls: the deque of timestamps, oldest first
    admitted,     \* history: every timestamp appended since construction/reset
    rlRaised,     \* TRUE when the last limiter method ended with an exception
    rlRet,        \* the value the last limiter query returned
    rlCall,       \* history: the last wait_if_needed call
    \* ---- calculate_weighted_score (a pure function and its inputs) ----
    wsCriteria,   \* criteria_list: a sequence of [name, weight]
    wsScores,     \* evaluation_scores: criterion key -> score entry
    wsOrder,      \* a reordering of criteria_list (a sequence of its indices)
    wsOut,        \* the value returned for criteria_list
    wsOutOrd,     \* the value returned for the reordered list
    wsPc,         \* "input", "scored", "reordered"
    \* ---- _merge_debate_results (a pure function and its inputs) ----
    mgInitial,    \* result_a_initial
    mgReview,     \* result_b_review (a result, {} or None)
    mgFinal,      \* result_a_final (a result, {} or None)
    mgOut,        \* the merged result
    mgPc,         \* "input", "merged"
    \* ---- a batch of evaluations (run_ai_evaluation, _run_ai_evaluation) ----
    llm_b,            \* TRUE when backend B is configured (debate mode)
    batchKind,        \* "run_ai" (the endpoint) or "scheduler" (the job)
    active_criteria,  \* criteria_list: the active criteria, in display order
    idx,              \* position in applications of the current application
    evPc,             \* "classify", "llm", "done"
    stepIdx,          \* position in DebateSteps of the next debate step
    success_count, fail_count, failed_ids,
    dbApp,            \* committed rows of the applications table
    dbHist,           \* committed EvaluationHistory rows, counted per application
    preApp, preHist,  \* the committed rows as each batch step began
    committed,        \* the row each successful evaluation committed
    outcome,          \* per application: "none", "ok", "failed"
    evalCalls,        \* per application: calls of evaluate_application
    evApp,            \* the application of the current or last evaluation
    events,           \* what the current evaluation did, in order
    result_a_initial, result_b_review, result_a_final,
    result,           \* the result handed to validation and persistence
    failure,          \* the exception that ended the evaluation, or "none"
    failedAt,         \* the step that raised it, or "none"
    attempts,         \* invocations made by the last LLM call
    normAttempts,     \* runs of the normalizer in the last LLM call
    callRaised,       \* the last LLM call raised to its caller
    llm_a_messages,   \* the message list of backend A in the current debate
    invokedWith,      \* the step of the last llm.invoke and the argument it got
    \* ---- a pure function of the evaluator applied to bounded inputs ----
    fnArgs,           \* the arguments
    fnOut,            \* what the function returned or raised
    fnPc,             \* "idle", "input", "applied"
    \* ---- token accounting of the evaluator ----
    token_usage,      \* self.token_usage: per backend key, the four counters
    tkInvoked,        \* history: per backend, the invocations that returned
    tkCarried,        \* history: per backend, the sums of the usage they carried
    tkBefore,         \* token_usage before the last operation
    tkLast,           \* the last operation: "none", "invoke", "failed_invoke", "reset", "summary"
    tkSummary,        \* what get_token_usage_summary returned last
    \* ---- two evaluations running at once on the singleton evaluator ----
    thPc,             \* per thread: the statement it executes next
    thLocal           \* per thread: its local values (now, the wake-up time, ...)

rlVars == <<now, max_calls, time_window, calls, admitted, rlRaised, rlRet, rlCall>>
wsVars == <<wsCriteria, wsScores, wsOrder, wsOut, wsOutOrd, wsPc>>
mgVars == <<mgInitial, mgReview, mgFinal, mgOut, mgPc>>

batchVars == <<llm_b, batchKind, active_criteria, idx, evPc, success_count, fail_count,
               failed_ids, outcome, evalCalls, evApp>>
dbVars == <<dbApp, dbHist, preApp, preHist, committed>>
callVars == <<stepIdx, events, result_a_initial, result_b_review, result_a_final,
              result, failure, failedAt, attempts, normAttempts, callRaised,
              llm_a_messages, invokedWith>>
evVars == <<batchVars, dbVars, callVars>>

fnVars == <<fnArgs, fnOut, fnPc>>

tkVars == <<token_usage, tkInvoked, tkCarried, tkBefore, tkLast, tkSummary>>

thVars == <<thPc, thLocal>>

vars == <<rlVars, wsVars, mgVars, evVars, fnVars, tkVars, thVars>>

\* The variables of the components a specification leaves alone
notRL == <<wsVars, mgVars, evVars, fnVars, tkVars, thVars>>
notWS == <<rlVars, mgVars, evVars, fnVars, tkVars, thVars>>
notMG == <<rlVars, wsVars, evVars, fnVars, tkVars, thVars>>
notEV == <<rlVars, wsVars, mgVars, fnVars, tkVars, thVars>>
notFN == <<rlVars, wsVars, mgVars, evVars, tkVars, thVars>>
notTK == <<rlVars, wsVars, mgVars, evVars, fnVars, thVars>>
notTH == <<wsVars, mgVars, evVars, fnVars>>

\* The state of a component under the specifications that do not run it
RLIdle ==
    /\ now = 0 /\ max_calls = 1 /\ time_window = 1 /\ calls = <<>>
    /\ admitted = <<>> /\ rlRaised = FALSE /\ rlRet = 0
    /\ rlCall = [op |-> "none", requested |-> 0, in_window |-> 0, oldest |-> 0,
                 slept |-> FALSE, returned |-> FALSE, recorded |-> 0]
WSIdle ==
    /\ wsCriteria = <<>> /\ wsScores = <<>> /\ wsOrder = <<>>
    /\ wsOut = 0 /\ wsOutOrd = 0 /\ wsPc = "input"
MGIdle ==
    /\ mgInitial = <<>> /\ mgReview = <<>> /\ mgFinal = <<>>
    /\ mgOut = <<>> /\ mgPc = "input"
FNIdle == fnArgs = <<>> /\ fnOut = <<>> /\ fnPc = "idle"
THIdle == thPc = <<>> /\ thLocal = <<>>
TKIdle ==
    /\ token_usage = <<>> /\ tkInvoked = <<>> /\ tkCarried = <<>>
    /\ tkBefore = <<>> /\ tkLast = "none" /\ tkSummary = <<>>
EVIdle ==
    /\ llm_b = FALSE /\ batchKind = "run_ai" /\ active_criteria = <<>>
    /\ idx = 1 /\ evPc = "done" /\ stepIdx = 1
    /\ success_count = 0 /\ fail_count = 0 /\ failed_ids = <<>>
    /\ dbApp = <<>> /\ dbHist = <<>> /\ preApp = <<>> /\ preHist = <<>>
    /\ committed = <<>> /\ outcome = <<>> /\ evalCalls = <<>> /\ evApp = 0
    /\ events = <<>>
    /\ result_a_initial = <<>> /\ result_b_review = <<>> /\ result_a_final = <<>>
    /\ result = <<>> /\ failure = "none" /\ failedAt = "none"
    /\ attempts = 0 /\ normAttempts = 0 /\ callRaised = FALSE
    /\ llm_a_messages = <<>> /\ invokedWith = [step |-> "none", arg |-> <<>>]

-----------------------------------------------------------------------------
(* Bounds of the rate limiter model *)
MaxTime     == 7    \* the clock stops advancing here
MaxCallsCfg == 2    \* max_calls is drawn from 0..MaxCallsCfg
MaxWindow   == 3    \* time_window is drawn from 1..MaxWindow
MaxLag      == 1    \* ticks that may pass inside one method between two clock reads
MaxAdmit    == 4    \* admissions recorded in one behaviour

(* time.sleep(sleep_time + 0.1): the safety margin, one tick of the model *)
SleepBuffer == 1

Max(a, b) == IF a >= b THEN a ELSE b

-----------------------------------------------------------------------------
(* RateLimiter *)

\* while self.calls and self.calls[0] < now - timedelta(seconds=self.time_window): popleft()
RECURSIVE PruneCalls(_, _, _)
PruneCalls(c, t, w) ==
    IF c # <<>> /\ Head(c) < t - w THEN PruneCalls(Tail(c), t, w) ELSE c

\* sleep_time = (self.calls[0] + timedelta(seconds=self.time_window) - now).total_seconds()
SleepTime(c, t, w) == Head(c) + w - t

\* if sleep_time > 0: the branch that sleeps and prunes again
MustSleep(st) == st > 0

\* if len(self.calls) >= self.max_calls: the limiter is at its limit
AtLimit(c, m) == Len(c) >= m

\* No wait_if_needed call has been made
NoCall == [op |-> "none", requested |-> 0, in_window |-> 0, oldest |-> 0,
           slept |-> FALSE, returned |-> FALSE, recorded |-> 0]

RLInit ==
    /\ now = 0
    /\ max_calls \in 0..MaxCallsCfg
    /\ time_window \in 1..MaxWindow
    /\ calls = <<>>
    /\ admitted = <<>>
    /\ rlRaised = FALSE
    /\ rlRet = 0
    /\ rlCall = NoCall
    /\ WSIdle
    /\ MGIdle
    /\ EVIdle
    /\ FNIdle
    /\ TKIdle /\ THIdle

\* The clock advances between two method calls of the caller.
Tick ==
    /\ now < MaxTime
    /\ now' = now + 1
    /\ UNCHANGED <<max_calls, time_window, calls, admitted, rlRaised, rlRet, rlCall>>
    /\ UNCHANGED notRL

\* RateLimiter.wait_if_needed, the whole method. lag is the time the method takes
\* between reading the clock and recording the call, over is the time time.sleep
\* overshoots.
WaitIfNeeded(over, lag) ==
    LET t0 == now
        c1 == PruneCalls(calls, t0, time_window)
    IN  /\ UNCHANGED notRL
        /\ IF AtLimit(c1, max_calls) /\ c1 = <<>>
           THEN \* self.calls[0] on an empty deque: IndexError
                /\ calls' = c1
                /\ rlRaised' = TRUE
                /\ rlCall' = [op |-> "wait", requested |-> t0, in_window |-> Len(c1),
                              oldest |-> 0, slept |-> FALSE, returned |-> FALSE,
                              recorded |-> 0]
                /\ UNCHANGED <<now, max_calls, time_window, admitted, rlRet>>
           ELSE LET st == IF AtLimit(c1, max_calls)
                         THEN SleepTime(c1, t0, time_window) ELSE 0
                    sleeps == AtLimit(c1, max_calls) /\ MustSleep(st)
                    t1 == IF sleeps THEN t0 + st + SleepBuffer + over ELSE t0
                    c2 == IF sleeps THEN PruneCalls(c1, t1, time_window) ELSE c1
                    t2 == t1 + lag
                IN  /\ t2 <= MaxTime
                    /\ Len(admitted) < MaxAdmit
                    /\ sleeps \/ over = 0
                    /\ now' = t2
                    /\ calls' = Append(c2, t2)
                    /\ admitted' = Append(admitted, t2)
                    /\ rlRaised' = FALSE
                    /\ rlCall' = [op |-> "wait", requested |-> t0, in_window |-> Len(c1),
                                  oldest |-> IF c1 = <<>> THEN 0 ELSE Head(c1),
                                  slept |-> sleeps, returned |-> TRUE, recorded |-> t2]
                    /\ UNCHANGED <<max_calls, time_window, rlRet>>

\* RateLimiter.reset
Reset ==
    /\ calls # <<>>
    /\ calls' = <<>>
    /\ admitted' = <<>>
    /\ rlRaised' = FALSE
    /\ UNCHANGED <<now, max_calls, time_window, rlRet, rlCall>>
    /\ UNCHANGED notRL

\* RateLimiter.get_remaining_calls
GetRemainingCalls ==
    LET c1 == PruneCalls(calls, now, time_window)
    IN  /\ calls' = c1
        /\ rlRet' = Max(0, max_calls - Len(c1))
        /\ rlRaised' = FALSE
        /\ UNCHANGED <<now, max_calls, time_window, admitted, rlCall>>
        /\ UNCHANGED notRL

\* RateLimiter.get_wait_time
GetWaitTime ==
    LET c1 == PruneCalls(calls, now, time_window)
    IN  /\ calls' = c1
        /\ IF Len(c1) < max_calls
           THEN rlRet' = 0 /\ rlRaised' = FALSE
           ELSE IF c1 = <<>>
                THEN rlRaised' = TRUE /\ UNCHANGED rlRet
                ELSE /\ rlRet' = Max(0, SleepTime(c1, now, time_window))
                     /\ rlRaised' = FALSE
        /\ UNCHANGED <<now, max_calls, time_window, admitted, rlCall>>
        /\ UNCHANGED notRL

RLNext ==
    \/ Tick
    \/ \E over \in 0..MaxLag, lag \in 0..MaxLag : WaitIfNeeded(over, lag)
    \/ Reset
    \/ GetRemainingCalls
    \/ GetWaitTime

SpecRL == RLInit /\ [][RLNext]_vars

-----------------------------------------------------------------------------
(* Claims about the rate limiter *)

\* The admissions recorded with a timestamp in the closed interval [t - w, t]
AdmittedIn(t, w) == {i \in DOMAIN admitted : admitted[i] >= t - w /\ admitted[i] <= t}

\* C14: wait_if_needed, get_remaining_calls and get_wait_time never raise, for
\* every configuration (max_calls = 0 included) and every call history.
C14_LimiterNeverRaises == ~rlRaised

\* C20: a request made while max_calls timestamps lie inside the window returns
\* after recording its admission no earlier than the oldest of them plus
\* time_window; a request made while fewer lie inside the window records its
\* admission without sleeping.
C20_BlocksUntilOldestExpires ==
    rlCall.op = "wait" =>
        /\ rlCall.in_window = max_calls =>
              /\ rlCall.returned
              /\ rlCall.recorded >= rlCall.oldest + time_window
        /\ rlCall.in_window < max_calls =>
              /\ rlCall.returned
              /\ ~rlCall.slept
              /\ rlCall.recorded >= rlCall.requested

\* C1: for max_calls >= 1, the number of admissions recorded within any trailing
\* interval of length time_window never exceeds max_calls, the instant at which the
\* oldest recorded timestamp is exactly time_window old included.
C1_WindowNeverExceeded ==
    max_calls >= 1 =>
        \A t \in 0..now : Cardinality(AdmittedIn(t, time_window)) <= max_calls

-----------------------------------------------------------------------------
(* Python float arithmetic.  A float is held as a whole number of units of      *)
(* 2^-FracBits; every operation rounds its exact result to MantBits significant *)
(* bits, ties to even, as IEEE-754 arithmetic does (with 53 bits in CPython).    *)
MantBits == 5
FracBits == 3

RECURSIVE Pow2(_)
Pow2(n) == IF n = 0 THEN 1 ELSE 2 * Pow2(n - 1)

RECURSIVE BitLen(_)
BitLen(n) == IF n = 0 THEN 0 ELSE 1 + BitLen(n \div 2)

\* The float nearest to the rational num/den (in units), ties to even
RoundRat(num, den) ==
    LET s   == Max(0, BitLen(num \div den) - MantBits)
        d   == den * Pow2(s)
        q   == num \div d
        rem == num - q * d
        up  == 2 * rem > d \/ (2 * rem = d /\ q % 2 = 1)
    IN  (IF up THEN q + 1 ELSE q) * Pow2(s)

FloatOf(n)    == n * Pow2(FracBits)          \* float(n) of a small int
FAdd(a, b)    == RoundRat(a + b, 1)          \* a + b
FMulInt(n, a) == RoundRat(n * a, 1)          \* n * a, n an int
FDiv(a, b)    == RoundRat(a * Pow2(FracBits), b)   \* a / b, b # 0

-----------------------------------------------------------------------------
(* Criterion names and canonical keys *)

\* self.criteria_key_map (the Korean names, transliterated)
criteria_key_map ==
    [hyeoksinseong |-> "innovation", silhyeonganeungseong |-> "feasibility",
     hyogwaseong |-> "impact", myeonghwakseong |-> "clarity"]

\* str.lower() on the criterion names of the model
Lower(name) == IF name = "Speed" THEN "speed" ELSE name

\* self.criteria_key_map.get(criterion.name, criterion.name.lower())
CanonicalKey(name) ==
    IF name \in DOMAIN criteria_key_map THEN criteria_key_map[name] ELSE Lower(name)

\* A score entry of evaluation_scores: a dict with a "score" (trail "none" as the
\* model returns it, "3step"/"2step" with the step scores a merge adds), or
\* anything else (not a dict, or a dict without "score").  Its rationale is
\* "absent", "number" (not a string), "empty", "short" (1 to 9 characters) or
\* "long" (10 characters or more)
ScoreEntry(n) ==
    [kind |-> "score", score |-> n, rationale |-> "long", trail |-> "none",
     sa |-> 0, sb |-> 0, sf |-> 0]
NoScoreEntry ==
    [kind |-> "noscore", score |-> 0, rationale |-> "absent", trail |-> "none",
     sa |-> 0, sb |-> 0, sf |-> 0]

\* isinstance(score_data, dict) and "score" in score_data
HasScore(e) == e.kind = "score"

\* key in evaluation_scores, and the entry carries a score
Contributes(scores, c) ==
    /\ CanonicalKey(c.name) \in DOMAIN scores
    /\ HasScore(scores[CanonicalKey(c.name)])

\* The loop of calculate_weighted_score over criteria_list[i..]:
\* <<total_weighted_score, total_weight>>
RECURSIVE WeightedSums(_, _, _, _, _)
WeightedSums(scores, list, i, tws, tw) ==
    IF i > Len(list) THEN <<tws, tw>>
    ELSE IF Contributes(scores, list[i])
         THEN WeightedSums(scores, list, i + 1,
                           FAdd(tws, FMulInt(scores[CanonicalKey(list[i].name)].score,
                                             list[i].weight)),
                           FAdd(tw, list[i].weight))
         ELSE WeightedSums(scores, list, i + 1, tws, tw)

\* LLMEvaluator.calculate_weighted_score
CalculateWeightedScore(scores, list) ==
    LET sums == WeightedSums(scores, list, 1, 0, 0)
    IN  IF sums[2] = 0 THEN 0 ELSE FDiv(sums[1], sums[2])

-----------------------------------------------------------------------------
(* calculate_weighted_score applied to bounded inputs *)
MaxCriteria == 3

WsNames   == {"hyeoksinseong", "Speed"}
WsWeights == {0, FloatOf(1), FloatOf(1) + 2}      \* 0.0, 1.0, 1.25
WsKeys    == {CanonicalKey(n) : n \in WsNames}
WsEntries == {NoScoreEntry, ScoreEntry(1), ScoreEntry(3), ScoreEntry(5)}

IndexOrders(n) == {p \in [1..n -> 1..n] : \A i, j \in 1..n : p[i] = p[j] => i = j}
Reordered(list, p) == [i \in 1..Len(list) |-> list[p[i]]]

WSInit ==
    /\ wsCriteria \in UNION {[1..n -> [name : WsNames, weight : WsWeights]] :
                              n \in 0..MaxCriteria}
    /\ wsScores \in UNION {[K -> WsEntries] : K \in SUBSET WsKeys}
    /\ wsOrder = <<>>
    /\ wsOut = 0
    /\ wsOutOrd = 0
    /\ wsPc = "input"
    /\ RLIdle
    /\ MGIdle
    /\ EVIdle
    /\ FNIdle
    /\ TKIdle /\ THIdle

\* calculate_weighted_score(evaluation_scores, criteria_list)
ScoreList ==
    /\ wsPc = "input"
    /\ wsOut' = CalculateWeightedScore(wsScores, wsCriteria)
    /\ wsPc' = "scored"
    /\ UNCHANGED <<wsCriteria, wsScores, wsOrder, wsOutOrd>>
    /\ UNCHANGED notWS

\* The same call with the caller's list in another order
ScoreReordered(p) ==
    /\ wsPc = "scored"
    /\ wsOrder' = p
    /\ wsOutOrd' = CalculateWeightedScore(wsScores, Reordered(wsCriteria, p))
    /\ wsPc' = "reordered"
    /\ UNCHANGED <<wsCriteria, wsScores, wsOut>>
    /\ UNCHANGED notWS

WSNext ==
    \/ ScoreList
    \/ \E p \in IndexOrders(Len(wsCriteria)) : ScoreReordered(p)

SpecWS == WSInit /\ [][WSNext]_vars

\* The criteria of the list that contribute, in the order of the list
ContributingOnly(scores, list) == SelectSeq(list, LAMBDA c : Contributes(scores, c))

RECURSIVE SumWeights(_, _)
SumWeights(list, i) ==
    IF i > Len(list) THEN 0 ELSE list[i].weight + SumWeights(list, i + 1)

\* C10: calculate_weighted_score depends only on the criteria whose canonical key
\* has a score entry in the result, returns the same value for every permutation
\* of the criteria list, and returns 0.0 when the contributing weights sum to 0.
C10_WeightedScoreOrderInvariant ==
    wsPc = "reordered" =>
        /\ wsOut = CalculateWeightedScore(wsScores, ContributingOnly(wsScores, wsCriteria))
        /\ wsOutOrd = wsOut
        /\ (SumWeights(ContributingOnly(wsScores, wsCriteria), 1) = 0 => wsOut = 0)

-----------------------------------------------------------------------------
(* Parsed results.  kind "dict" is a non-empty JSON object, "empty" is {},      *)
(* "none" is None, "nondict" any other JSON value (a list, a number).  A field  *)
(* the object lacks is "absent"; has_scores tells whether the object has the     *)
(* evaluation_scores key, scores maps the criterion keys under it to entries,   *)
(* top maps the criterion keys found at the top level of the object to theirs.  *)
(* debate is final_decision in a result of A and debate_summary in one of B.    *)
(* five_line_summary is "list5", "list2" or "list0" (a list of that many        *)
(* strings) or "number" (a non-zero JSON number).                               *)
NoneResult ==
    [kind |-> "none", cat |-> "absent", impact |-> "absent", feas |-> "absent",
     summary |-> "absent", debate |-> "absent", has_scores |-> FALSE, scores |-> <<>>,
     top |-> <<>>]
EmptyResult   == [NoneResult EXCEPT !.kind = "empty"]
NonDictResult == [NoneResult EXCEPT !.kind = "nondict"]

DictResult(cat, impact, feas, summary, debate, has_scores, scores) ==
    [kind |-> "dict", cat |-> cat, impact |-> impact, feas |-> feas,
     summary |-> summary, debate |-> debate, has_scores |-> has_scores,
     scores |-> scores, top |-> <<>>]

\* bool(result) for None, {} and a non-empty dict
Truthy(r) == r.kind \in {"dict", "nondict"}

\* result.get("evaluation_scores", {})
ScoresOf(r) == IF r.kind = "dict" /\ r.has_scores THEN r.scores ELSE <<>>

\* score_obj.get("score", 0) if isinstance(score_obj, dict) else 0, of scores.get(k, {})
StepScore(scores, k) ==
    IF k \in DOMAIN scores /\ HasScore(scores[k]) THEN scores[k].score ELSE 0

\* score_obj.get("rationale", "") if isinstance(score_obj, dict) else ""
StepRationale(scores, k) ==
    IF k \in DOMAIN scores /\ HasScore(scores[k]) /\ scores[k].rationale # "absent"
    THEN scores[k].rationale ELSE "empty"

\* combined_rationale of _merge_2step_results: both scores with their labels,
\* the 9 characters of the agreement label before B's rationale, or A's rationale
CombinedRationale2(sa, sb, ra, rb) ==
    IF sa > 0 /\ sb > 0 /\ sa # sb THEN "long"
    ELSE IF sb > 0 THEN IF rb = "empty" THEN "short" ELSE "long"
    ELSE ra

\* x.get(field, default)
GetOr(v, default) == IF v = "absent" THEN default ELSE v

\* A merge in which the reviewer's score wins when FINAL_A gives none
FinalScore3_ReviewWins(sa, sb, sf) ==
    IF sf > 0 THEN sf ELSE IF sb > 0 THEN sb ELSE IF sa > 0 THEN sa ELSE 3

\* final_score = score_a_final if score_a_final > 0
\*               else (score_a_init if score_a_init > 0 else 3)
FinalScore3(sa, sb, sf) == IF sf > 0 THEN sf ELSE IF sa > 0 THEN sa ELSE 3

\* A two-step merge in which the initial score wins
FinalScore2_InitialWins(sa, sb) == IF sa > 0 THEN sa ELSE IF sb > 0 THEN sb ELSE 3

\* final_score = score_b if score_b > 0 else (score_a if score_a > 0 else 3)
FinalScore2(sa, sb) == IF sb > 0 THEN sb ELSE IF sa > 0 THEN sa ELSE 3

\* _merge_debate_results, the branch "if result_a_final"
Merge3StepResults(ri, rb, rf) ==
    LET si == ScoresOf(ri)
        sb == IF Truthy(rb) THEN ScoresOf(rb) ELSE <<>>
        sf == ScoresOf(rf)
        all_criteria == DOMAIN si \cup DOMAIN sb \cup DOMAIN sf
    IN  DictResult(GetOr(rf.cat, GetOr(ri.cat, "bunryu")),
                   GetOr(rf.impact, GetOr(ri.impact, "")),
                   GetOr(rf.feas, GetOr(ri.feas, "")),
                   GetOr(rf.summary, GetOr(ri.summary, "list0")),
                   GetOr(rf.debate, IF Truthy(rb) THEN GetOr(rb.debate, "") ELSE ""),
                   TRUE,
                   [k \in all_criteria |->
                      [kind |-> "score",
                       score |-> FinalScore3(StepScore(si, k), StepScore(sb, k),
                                             StepScore(sf, k)),
                       rationale |-> "long",
                       trail |-> "3step",
                       sa |-> StepScore(si, k), sb |-> StepScore(sb, k),
                       sf |-> StepScore(sf, k)]])

\* LLMEvaluator._merge_2step_results
Merge2StepResults(ra, rb) ==
    LET sa == ScoresOf(ra)
        sb == ScoresOf(rb)
        all_criteria == DOMAIN sa \cup DOMAIN sb
    IN  DictResult(GetOr(rb.cat, GetOr(ra.cat, "bunryu")),
                   GetOr(rb.impact, GetOr(ra.impact, "")),
                   GetOr(rb.feas, GetOr(ra.feas, "")),
                   GetOr(rb.summary, GetOr(ra.summary, "list0")),
                   GetOr(rb.debate, ""),
                   TRUE,
                   [k \in all_criteria |->
                      [kind |-> "score",
                       score |-> FinalScore2(StepScore(sa, k), StepScore(sb, k)),
                       rationale |-> CombinedRationale2(StepScore(sa, k), StepScore(sb, k),
                                                        StepRationale(sa, k),
                                                        StepRationale(sb, k)),
                       trail |-> "2step",
                       sa |-> StepScore(sa, k), sb |-> StepScore(sb, k), sf |-> 0]])

\* LLMEvaluator._merge_debate_results
MergeDebateResults(ri, rb, rf) ==
    IF Truthy(rf) THEN Merge3StepResults(ri, rb, rf)
    ELSE IF Truthy(rb) THEN Merge2StepResults(ri, rb)
    ELSE ri

-----------------------------------------------------------------------------
(* _merge_debate_results applied to bounded inputs *)
MgKeys    == {"innovation", "speed"}
MgEntries == {NoScoreEntry, ScoreEntry(0), ScoreEntry(2), ScoreEntry(5)}

\* The results a step can hand to the merge: every score map over MgKeys, with
\* the other fields all present or all absent
MgResults ==
    {DictResult(f[1], f[2], f[3], f[4], "absent", TRUE, sc) :
        f \in {<<"yecheuk", "text", "text", "list5">>,
               <<"absent", "absent", "absent", "absent">>},
        sc \in UNION {[K -> MgEntries] : K \in SUBSET MgKeys}}
    \cup {DictResult("yecheuk", "text", "text", "list5", "absent", FALSE, <<>>)}

\* A review that differs from every initial result in each field
MgOtherReview ==
    DictResult("bunryu", "other", "other", "list2", "text", TRUE,
               [k \in {"innovation"} |-> ScoreEntry(2)])

MGInit ==
    /\ mgInitial \in MgResults
    /\ mgReview \in MgResults \cup {NoneResult, EmptyResult, MgOtherReview}
    /\ mgFinal \in MgResults \cup {NoneResult, EmptyResult}
    /\ mgOut = <<>>
    /\ mgPc = "input"
    /\ RLIdle
    /\ WSIdle
    /\ EVIdle
    /\ FNIdle
    /\ TKIdle /\ THIdle

\* result = self._merge_debate_results(result_a_initial, result_b_review, result_a_final)
MergeStep ==
    /\ mgPc = "input"
    /\ mgOut' = MergeDebateResults(mgInitial, mgReview, mgFinal)
    /\ mgPc' = "merged"
    /\ UNCHANGED <<mgInitial, mgReview, mgFinal>>
    /\ UNCHANGED notMG

MGNext == MergeStep

SpecMG == MGInit /\ [][MGNext]_vars

\* The score a step result gives a criterion, read off the result itself
RawScore(r, k) ==
    IF r.kind = "dict" /\ r.has_scores /\ k \in DOMAIN r.scores /\ r.scores[k].kind = "score"
    THEN r.scores[k].score ELSE 0

RawKeys(r) == IF r.kind = "dict" /\ r.has_scores THEN DOMAIN r.scores ELSE {}

\* C6: in the three-way merge (a FINAL_A result exists) the merged score of every
\* criterion key of any of the three step results is FINAL_A's score if > 0, else
\* INITIAL_A's score if > 0, else 3; REVIEW_B's score never decides it.
C6_ThreeWayMergeRule ==
    (mgPc = "merged" /\ mgFinal.kind = "dict") =>
        /\ DOMAIN mgOut.scores = RawKeys(mgInitial) \cup RawKeys(mgReview) \cup RawKeys(mgFinal)
        /\ \A k \in DOMAIN mgOut.scores :
              mgOut.scores[k].score =
                  IF RawScore(mgFinal, k) > 0 THEN RawScore(mgFinal, k)
                  ELSE IF RawScore(mgInitial, k) > 0 THEN RawScore(mgInitial, k)
                  ELSE 3

\* C24: when there is a review result and no FINAL_A result, the merged score
\* of every criterion key of either result is the reviewer's score if > 0, else
\* the initial score if > 0, else 3; each of ai_category, business_impact,
\* technical_feasibility and five_line_summary is the reviewer's when the
\* review has it, else the initial result's when that has it; and each entry
\* keeps both step scores
C24_TwoStepFallback ==
    (mgPc = "merged" /\ mgReview.kind = "dict" /\ mgFinal.kind # "dict") =>
        /\ DOMAIN mgOut.scores = RawKeys(mgInitial) \cup RawKeys(mgReview)
        /\ \A k \in DOMAIN mgOut.scores :
              /\ mgOut.scores[k].score =
                    IF RawScore(mgReview, k) > 0 THEN RawScore(mgReview, k)
                    ELSE IF RawScore(mgInitial, k) > 0 THEN RawScore(mgInitial, k)
                    ELSE 3
              /\ mgOut.scores[k].trail = "2step"
              /\ mgOut.scores[k].sa = RawScore(mgInitial, k)
              /\ mgOut.scores[k].sb = RawScore(mgReview, k)
        /\ \A f \in {"cat", "impact", "feas", "summary"} :
              /\ mgReview[f] # "absent" => mgOut[f] = mgReview[f]
              /\ (mgReview[f] = "absent" /\ mgInitial[f] # "absent") =>
                    mgOut[f] = mgInitial[f]

\* A two-step merge in which the reviewer's score differs from the initial
\* score and wins, and the reviewer's category replaces the initial one
C24_Witness ==
    /\ mgPc = "merged" /\ mgReview.kind = "dict" /\ mgFinal.kind = "none"
    /\ \E k \in DOMAIN mgOut.scores :
          /\ RawScore(mgReview, k) > 0 /\ RawScore(mgInitial, k) > 0
          /\ RawScore(mgReview, k) # RawScore(mgInitial, k)
          /\ mgOut.scores[k].score = RawScore(mgReview, k)
    /\ mgInitial.cat = "yecheuk" /\ mgOut.cat = "bunryu"

\* C6 witness: a three-way merge in which the reviewer scored a criterion
\* differently from both A steps, and FINAL_A gave no usable score for a criterion
\* that INITIAL_A scored.
C6_Witness ==
    /\ mgPc = "merged" /\ mgFinal.kind = "dict"
    /\ \E k \in DOMAIN mgOut.scores :
          /\ RawScore(mgReview, k) > 0
          /\ RawScore(mgReview, k) # mgOut.scores[k].score
    /\ \E k \in DOMAIN mgOut.scores :
          RawScore(mgFinal, k) = 0 /\ RawScore(mgInitial, k) > 0

-----------------------------------------------------------------------------
(* The steps of evaluate_application after the LLM calls *)

\* The result B returns with its criteria at the top level of the object
TopLevelResult(r, top) == [r EXCEPT !.top = top, !.has_scores = FALSE, !.scores = <<>>]

\* _normalize_evaluation_result raises on a value without .items()
NormalizeRaises(r) == r.kind = "nondict"

\* A normalizer that rebuilds the object from its top-level criteria whether or
\* not it has evaluation_scores
NormalizeEvaluationResult_AlwaysRebuilds(r) ==
    LET crit == {k \in DOMAIN r.top : HasScore(r.top[k])}
    IN  IF r.kind # "dict" \/ crit = {} THEN r
        ELSE [DictResult(GetOr(r.cat, "bunryu"), GetOr(r.impact, ""), GetOr(r.feas, ""),
                         GetOr(r.summary, "list0"), r.debate, TRUE,
                         [k \in crit |-> r.top[k]])
              EXCEPT !.top = <<>>]

\* LLMEvaluator._normalize_evaluation_result
NormalizeEvaluationResult(r) ==
    LET crit == {k \in DOMAIN r.top : HasScore(r.top[k])}
    IN  IF r.kind # "dict" \/ r.has_scores \/ crit = {} THEN r
        ELSE [DictResult(GetOr(r.cat, "bunryu"), GetOr(r.impact, ""), GetOr(r.feas, ""),
                         GetOr(r.summary, "list0"), r.debate, TRUE,
                         [k \in crit |-> r.top[k]])
              EXCEPT !.top = <<>>]

\* "field not in result or not result[field]"
MissingOrEmpty(v) == v \in {"absent", "", "list0"}

\* self.criteria_key_map.get(criterion.name, criterion.name)
ValidatorKey(name) ==
    IF name \in DOMAIN criteria_key_map THEN criteria_key_map[name] ELSE name

\* The per-criterion checks of _validate_evaluation_quality
CriterionViolated(scores, c) ==
    \/ ValidatorKey(c.name) \notin DOMAIN scores
    \/ ~HasScore(scores[ValidatorKey(c.name)])
    \/ ~(scores[ValidatorKey(c.name)].score \in 1..5)
    \/ scores[ValidatorKey(c.name)].rationale # "long"

\* LLMEvaluator._validate_evaluation_quality: "passed", or the exception raised
ValidateEvaluationQuality(r, criteria_list, valid_categories) ==
    IF \/ r.kind # "dict"
       \/ \E v \in {r.cat, r.impact, r.feas, r.summary} : MissingOrEmpty(v)
       \/ ~r.has_scores \/ DOMAIN r.scores = {}
    THEN "EvaluationQualityError"
    ELSE IF r.cat \notin valid_categories THEN "EvaluationQualityError"
    ELSE IF r.summary # "list5"
         THEN IF r.summary = "number" THEN "TypeError" ELSE "EvaluationQualityError"
    ELSE IF \E i \in DOMAIN criteria_list : CriterionViolated(r.scores, criteria_list[i])
         THEN "EvaluationQualityError"
    ELSE "passed"

\* "except EvaluationQualityError" around the validator call
ValidationAborts(verdict) == verdict \notin {"passed", "EvaluationQualityError"}

\* "\n".join(five_line_summary) raises on a value that is not iterable
JoinRaises(summary) == summary = "number"

\* Comparisons of a float (in units) with the literals 4.5, 3.5, 2.5, 1.5
AtLeastHalves(avg, halves) == 2 * avg >= halves * Pow2(FracBits)

\* A table whose boundary values fall into the lower grade
ScoreToGrade_Strict(avg) ==
    IF 2 * avg > 9 * Pow2(FracBits) THEN "S"
    ELSE IF 2 * avg > 7 * Pow2(FracBits) THEN "A"
    ELSE IF 2 * avg > 5 * Pow2(FracBits) THEN "B"
    ELSE IF 2 * avg > 3 * Pow2(FracBits) THEN "C"
    ELSE "D"

\* LLMEvaluator._score_to_grade
ScoreToGrade(avg) ==
    IF 2 * avg >= 9 * Pow2(FracBits) THEN "S"
    ELSE IF 2 * avg >= 7 * Pow2(FracBits) THEN "A"
    ELSE IF 2 * avg >= 5 * Pow2(FracBits) THEN "B"
    ELSE IF 2 * avg >= 3 * Pow2(FracBits) THEN "C"
    ELSE "D"

\* The table at the end of LLMEvaluator.calculate_overall_grade
OverallGradeTable(avg_score) ==
    IF AtLeastHalves(avg_score, 9) THEN "S"
    ELSE IF AtLeastHalves(avg_score, 7) THEN "A"
    ELSE IF AtLeastHalves(avg_score, 5) THEN "B"
    ELSE IF AtLeastHalves(avg_score, 3) THEN "C"
    ELSE "D"

\* "Convert average to grade (S/A/B/C/D)" in evaluate_application
InlineGrade(avg_score) ==
    IF AtLeastHalves(avg_score, 9) THEN "S"
    ELSE IF AtLeastHalves(avg_score, 7) THEN "A"
    ELSE IF AtLeastHalves(avg_score, 5) THEN "B"
    ELSE IF AtLeastHalves(avg_score, 3) THEN "C"
    ELSE "D"

\* The simple average over the four canonical keys that carry a score
SimpleKeys == <<"innovation", "feasibility", "impact", "clarity">>

RECURSIVE SimpleSums(_, _, _, _)
SimpleSums(scores, i, sum, n) ==
    IF i > Len(SimpleKeys) THEN <<sum, n>>
    ELSE IF SimpleKeys[i] \in DOMAIN scores /\ HasScore(scores[SimpleKeys[i]])
         THEN SimpleSums(scores, i + 1, sum + scores[SimpleKeys[i]].score, n + 1)
         ELSE SimpleSums(scores, i + 1, sum, n)

SimpleAverage(scores) ==
    LET s == SimpleSums(scores, 1, 0, 0)
    IN  IF s[2] = 0 THEN FloatOf(3) ELSE FDiv(FloatOf(s[1]), FloatOf(s[2]))

\* The grade from technical_feasibility when no scores were provided
TextGrade(feas) ==
    IF feas = "hard" THEN "C" ELSE IF feas = "ok" THEN "A" ELSE "B"

\* "Calculate overall grade from evaluation scores" in evaluate_application
OverallGrade(r, criteria_list) ==
    IF DOMAIN ScoresOf(r) # {}
    THEN InlineGrade(IF criteria_list # <<>>
                      THEN CalculateWeightedScore(ScoresOf(r), criteria_list)
                      ELSE SimpleAverage(ScoresOf(r)))
    ELSE TextGrade(GetOr(r.feas, ""))

\* evaluation_detail: the five extracted fields, with their defaults
EvaluationDetail(r) ==
    DictResult(GetOr(r.cat, "bunryu"), GetOr(r.impact, ""), GetOr(r.feas, ""),
               GetOr(r.summary, "list0"), "absent", TRUE, ScoresOf(r))

\* A row of the applications table, the columns the evaluation writes
PendingApplication ==
    [ai_categories |-> <<>>, ai_category_primary |-> "none", ai_grade |-> "none",
     ai_summary |-> <<>>, ai_evaluation_detail |-> NoneResult, ai_evaluated_at |-> 0,
     status |-> "pending"]

\* An update that leaves the status as it was
EvaluatedApplication_KeepsStatus(app, r, criteria_list, t) ==
    [app EXCEPT !.ai_evaluation_detail = EvaluationDetail(r),
                !.ai_grade = OverallGrade(r, criteria_list),
                !.ai_evaluated_at = t]

\* "Update application" in evaluate_application, at time t
EvaluatedApplication(app, r, criteria_list, t) ==
    LET d == EvaluationDetail(r)
    IN  [app EXCEPT !.ai_categories = <<[category |-> d.cat, source |-> "evaluation"]>>,
                    !.ai_category_primary = d.cat,
                    !.ai_evaluation_detail = d,
                    !.ai_grade = OverallGrade(r, criteria_list),
                    !.ai_summary = <<d.cat, d.impact, d.feas, d.summary>>,
                    !.ai_evaluated_at = t,
                    !.status = "ai_evaluated"]

\* AIClassifier.classify_and_update: the row it commits.  classification is the
\* best category by keyword matches, "none" when no keyword matched
ClassifiedApplication(app, classification) ==
    IF classification # "none"
    THEN [app EXCEPT !.ai_categories = <<[category |-> classification, source |-> "keywords"]>>,
                     !.ai_category_primary = classification]
    ELSE [app EXCEPT !.ai_categories = <<[category |-> "deiteobunseok", source |-> "default"]>>,
                     !.ai_category_primary = "deiteobunseok"]

\* The part of evaluate_application after the LLM calls: what stopped it
\* ("none" when it reached db.commit() and the commit succeeded)
PersistFailure(r, criteria_list, valid_categories, commit_ok) ==
    IF r.kind = "nondict" THEN "AttributeError"
    ELSE IF ValidationAborts(ValidateEvaluationQuality(r, criteria_list, valid_categories))
         THEN ValidateEvaluationQuality(r, criteria_list, valid_categories)
    ELSE IF JoinRaises(GetOr(r.summary, "list0")) THEN "TypeError"
    ELSE IF ~commit_ok THEN "CommitError"
    ELSE "none"

-----------------------------------------------------------------------------
(* A batch of evaluations: for each application, classify_and_update and then   *)
(* evaluate_application, whose LLM calls are one action each.                    *)
NumApps == 2

\* stop_after_attempt(3) on _normalize_evaluation_result; llm.invoke is a plain call
NormalizeAttemptLimit == 3
InvokeAttemptLimit    == 1

Applications    == 1..NumApps
ValidCategories == {"yecheuk", "bunryu"}
EvCriteria      == <<[name |-> "hyeoksinseong", weight |-> FloatOf(1)]>>

\* A debate that asks the reviewer first
DebateSteps_ReviewFirst == <<"B_review", "A_initial", "A_final">>

\* The order of the LLM calls in evaluate_with_multiturn_debate
DebateSteps == <<"A_initial", "B_review", "A_final">>

\* A debate whose try block covers step 3 only, and one that covers step 2 only
CaughtInDebate_FinalOnly(step) == step = "A_final"
CaughtInDebate_ReviewOnly(step) == step = "B_review"

\* The steps inside the try block of evaluate_with_multiturn_debate
CaughtInDebate(step) == step \in {"B_review", "A_final"}

\* The calls made through evaluate_with_single_llm, which normalizes the result
UsesSingleLLM(step) == step \in {"B_review", "A_single"}

\* What a backend answers: an exception, text without parseable JSON, or JSON
Raise       == [resp |-> "raise", value |-> NoneResult]
Unparseable == [resp |-> "unparseable", value |-> NoneResult]
Json(r)     == [resp |-> "json", value |-> r]

OneScore(e) == [k \in {"innovation"} |-> e]
Good(n) == DictResult("yecheuk", "text", "text", "list5", "text", TRUE, OneScore(ScoreEntry(n)))

ScoreSix         == Good(6)
BadCategory      == [Good(3) EXCEPT !.cat = "gita"]
MissingCriterion == [Good(3) EXCEPT !.scores = [k \in {"speed"} |-> ScoreEntry(3)]]
ShortSummary     == [Good(3) EXCEPT !.summary = "list2"]
SummaryNumber    == [Good(4) EXCEPT !.summary = "number"]
NoScores         == [Good(3) EXCEPT !.has_scores = FALSE, !.scores = <<>>, !.feas = "hard"]
Unscored ==
    DictResult("absent", "absent", "absent", "absent", "absent", TRUE, OneScore(NoScoreEntry))
TopLevel ==
    TopLevelResult([Good(1) EXCEPT !.cat = "absent"], OneScore(ScoreEntry(1)))

Failures         == {Raise, Unparseable}
InitialResponses == Failures \cup {Json(Good(4)), Json(ScoreSix), Json(TopLevel)}
ReviewResponses  == Failures \cup {Json(Good(2)), Json(TopLevel), Json(EmptyResult),
                                    Json(NonDictResult)}
FinalResponses   == Failures \cup {Json(Good(5)), Json(Unscored), Json(SummaryNumber)}
SingleResponses  == Failures \cup {Json(Good(4)), Json(ScoreSix), Json(BadCategory),
                                    Json(MissingCriterion), Json(ShortSummary),
                                    Json(SummaryNumber), Json(NoScores),
                                    Json(EmptyResult), Json(NonDictResult),
                                    Json(TopLevel)}

\* The exception an LLM call raises to its caller, "none" when it returns
StepException(step, out) ==
    IF out.resp = "raise" THEN "LLMError"
    ELSE IF out.resp = "unparseable" THEN "JSONDecodeError"
    ELSE IF UsesSingleLLM(step) /\ NormalizeRaises(out.value) THEN "RetryError"
    ELSE "none"

\* An LLM call that returns the parsed response as it is
StepResult_Raw(step, out) == out.value

\* The result an LLM call returns
StepResult(step, out) ==
    IF UsesSingleLLM(step) THEN NormalizeEvaluationResult(out.value) ELSE out.value

\* Runs of _normalize_evaluation_result under @retry in one LLM call
NormalizerRuns(step, out) ==
    IF ~UsesSingleLLM(step) \/ out.resp # "json" THEN 0
    ELSE IF NormalizeRaises(out.value) THEN NormalizeAttemptLimit ELSE 1

\* A loop that records every application as failed
FailedIdsAfter_Always(ids, kind, app, ok) == Append(ids, app)

\* failed_ids.append(app.id) in the batch loop of run_ai_evaluation
FailedIdsAfter(ids, kind, app, ok) ==
    IF kind = "run_ai" /\ ~ok THEN Append(ids, app) ELSE ids

EVInit ==
    /\ llm_b \in BOOLEAN
    /\ batchKind \in {"run_ai", "scheduler"}
    /\ active_criteria \in {EvCriteria, <<>>}
    /\ idx = 1 /\ evPc = "classify" /\ stepIdx = 1
    /\ success_count = 0 /\ fail_count = 0 /\ failed_ids = <<>>
    /\ dbApp = [a \in Applications |-> PendingApplication]
    /\ dbHist = [a \in Applications |-> 0]
    /\ preApp = dbApp /\ preHist = dbHist
    /\ committed = dbApp
    /\ outcome = [a \in Applications |-> "none"]
    /\ evalCalls = [a \in Applications |-> 0]
    /\ evApp = 0
    /\ events = <<>>
    /\ result_a_initial = NoneResult /\ result_b_review = NoneResult
    /\ result_a_final = NoneResult /\ result = NoneResult
    /\ failure = "none" /\ failedAt = "none"
    /\ attempts = 0 /\ normAttempts = 0 /\ callRaised = FALSE
    /\ llm_a_messages = <<>> /\ invokedWith = [step |-> "none", arg |-> <<>>]
    /\ RLIdle /\ WSIdle /\ MGIdle /\ FNIdle /\ TKIdle /\ THIdle

\* What classify_application finds: the best category by keyword matches, "none"
\* when no keyword matched, "raise" when it raises
Classifications == {"yecheuk", "none", "raise"}

\* ai_classifier.classify_and_update(db, app, categories), with which a batch step
\* begins; evaluate_application is entered right after it, whatever it returned
ClassifyAndUpdate(cls) ==
    /\ evPc = "classify"
    /\ preApp' = [preApp EXCEPT ![idx] = dbApp[idx]]
    /\ preHist' = [preHist EXCEPT ![idx] = dbHist[idx]]
    /\ dbApp' = IF cls = "raise" THEN dbApp
                ELSE [dbApp EXCEPT ![idx] = ClassifiedApplication(@, cls)]
    /\ evApp' = idx
    /\ evalCalls' = [evalCalls EXCEPT ![idx] = @ + 1]
    /\ evPc' = "llm"
    /\ stepIdx' = 1
    /\ events' = <<>>
    /\ result_a_initial' = NoneResult
    /\ result_b_review' = NoneResult
    /\ result_a_final' = NoneResult
    /\ result' = NoneResult
    /\ failure' = "none" /\ failedAt' = "none"
    /\ attempts' = 0 /\ normAttempts' = 0 /\ callRaised' = FALSE
    /\ llm_a_messages' = <<>> /\ invokedWith' = [step |-> "none", arg |-> <<>>]
    /\ UNCHANGED <<llm_b, batchKind, active_criteria, idx, success_count, fail_count,
                   failed_ids, outcome, dbHist, committed>>
    /\ UNCHANGED notEV

\* The end of evaluate_application (db.commit() and True, or db.rollback() and
\* False, which leaves the committed rows as they are) and the bookkeeping of
\* the batch loop on its return value
EndOfStep(ok, r) ==
    /\ dbApp' = IF ok THEN [dbApp EXCEPT
                              ![idx] = EvaluatedApplication(@, r, active_criteria, idx)]
                ELSE dbApp
    /\ dbHist' = IF ok THEN [dbHist EXCEPT ![idx] = @ + 1] ELSE dbHist
    /\ committed' = IF ok THEN [committed EXCEPT
                                  ![idx] = EvaluatedApplication(dbApp[idx], r,
                                                                active_criteria, idx)]
                   ELSE committed
    /\ outcome' = [outcome EXCEPT ![idx] = IF ok THEN "ok" ELSE "failed"]
    /\ success_count' = IF ok THEN success_count + 1 ELSE success_count
    /\ fail_count' = IF ok THEN fail_count ELSE fail_count + 1
    /\ failed_ids' = FailedIdsAfter(failed_ids, batchKind, idx, ok)
    /\ idx' = idx + 1
    /\ evPc' = IF idx = NumApps THEN "done" ELSE "classify"
    /\ UNCHANGED <<llm_b, batchKind, active_criteria, evalCalls, evApp, preApp, preHist>>

\* evaluate_application from "Validate evaluation quality" on, for the result r
PersistStep(r, log, commit_ok) ==
    LET f == PersistFailure(r, active_criteria, ValidCategories, commit_ok)
    IN  /\ result' = r
        /\ events' = log
        /\ failure' = f
        /\ failedAt' = IF f = "none" THEN "none" ELSE "persist"
        /\ EndOfStep(f = "none", r)

\* A final step that invokes A without passing the rate limiter
CallEvents_FinalUnlimited(step, exc) ==
    IF step = "A_final"
    THEN <<[ev |-> "invoke", step |-> step],
           [ev |-> IF exc = "none" THEN "result" ELSE "raise", step |-> step]>>
    ELSE <<[ev |-> "admit", step |-> step], [ev |-> "invoke", step |-> step],
           [ev |-> IF exc = "none" THEN "result" ELSE "raise", step |-> step]>>

\* rate_limiter.wait_if_needed(), llm.invoke(...), and how the call ended
CallEvents(step, exc) ==
    <<[ev |-> "admit", step |-> step], [ev |-> "invoke", step |-> step],
      [ev |-> IF exc = "none" THEN "result" ELSE "raise", step |-> step]>>

\* An LLM call that raised out of evaluate_application's try block
EvaluationRaises(step, exc, log) ==
    /\ result' = NoneResult
    /\ events' = log
    /\ failure' = exc
    /\ failedAt' = step
    /\ EndOfStep(FALSE, NoneResult)

\* A message of a conversation (a prompt string is a message of role "prompt"),
\* tagged with the application it was built for
Msg(role, content, app) == [role |-> role, content |-> content, app |-> app]

\* A final step that sends the feedback without the conversation before it
InvokeArgument_Fresh(step, app, msgs) ==
    IF step = "A_final"
    THEN <<Msg("system", "system_message", app), Msg("human", "feedback_prompt", app)>>
    ELSE IF step = "A_initial"
    THEN <<Msg("system", "system_message", app), Msg("human", "prompt_a_initial", app)>>
    ELSE IF step = "B_review" THEN <<Msg("prompt", "debate_prompt", app)>>
    ELSE <<Msg("prompt", "prompt", app)>>

\* What llm.invoke receives at a step: llm_a_messages after the appends that
\* precede the invoke, or the prompt of evaluate_with_single_llm
InvokeArgument(step, app, msgs) ==
    IF step = "A_initial"
    THEN <<Msg("system", "system_message", app), Msg("human", "prompt_a_initial", app)>>
    ELSE IF step = "A_final" THEN Append(msgs, Msg("human", "feedback_prompt", app))
    ELSE IF step = "B_review" THEN <<Msg("prompt", "debate_prompt", app)>>
    ELSE <<Msg("prompt", "prompt", app)>>

\* llm_a_messages after a step: the list A was invoked with, and A's initial
\* response once it has been parsed
MessagesAfter(step, app, msgs, exc) ==
    IF step = "A_initial"
    THEN InvokeArgument(step, app, msgs)
         \o (IF exc = "none" THEN <<Msg("ai", "content_a_initial", app)>> ELSE <<>>)
    ELSE IF step = "A_final" THEN InvokeArgument(step, app, msgs)
    ELSE msgs

\* One step of evaluate_with_multiturn_debate; after the last step, or after a
\* step whose exception the debate catches, the debate returns and
\* evaluate_application merges, validates and persists
DebateStep(step, out, commit_ok) ==
    LET exc == StepException(step, out)
        res == StepResult(step, out)
        ri  == IF step = "A_initial" /\ exc = "none" THEN res ELSE result_a_initial
        rb  == IF step = "B_review" /\ exc = "none" THEN res ELSE result_b_review
        rf  == IF step = "A_final" /\ exc = "none" THEN res ELSE result_a_final
        log == events \o CallEvents(step, exc)
    IN  /\ attempts' = InvokeAttemptLimit
        /\ normAttempts' = NormalizerRuns(step, out)
        /\ callRaised' = (exc # "none")
        /\ invokedWith' = [step |-> step, arg |-> InvokeArgument(step, evApp, llm_a_messages)]
        /\ llm_a_messages' = MessagesAfter(step, evApp, llm_a_messages, exc)
        /\ result_a_initial' = ri
        /\ result_b_review' = rb
        /\ result_a_final' = rf
        /\ IF exc # "none" /\ ~CaughtInDebate(step)
           THEN EvaluationRaises(step, exc, log) /\ UNCHANGED stepIdx
           ELSE IF exc # "none" \/ stepIdx = Len(DebateSteps)
           THEN /\ PersistStep(MergeDebateResults(ri, rb, rf),
                               Append(log, [ev |-> "merge", step |-> "debate"]), commit_ok)
                /\ UNCHANGED stepIdx
           ELSE /\ stepIdx' = stepIdx + 1
                /\ events' = log
                /\ UNCHANGED <<result, failure, failedAt, batchVars, dbVars>>
        /\ UNCHANGED notEV

\* Step 1: self.llm_a.invoke(llm_a_messages) and the parse of its response
InvokeAInitial(out, commit_ok) ==
    /\ evPc = "llm" /\ llm_b
    /\ DebateSteps[stepIdx] = "A_initial"
    /\ DebateStep("A_initial", out, commit_ok)

\* Step 2: evaluate_with_single_llm(self.llm_b, debate_prompt, ...)
InvokeBReview(out, commit_ok) ==
    /\ evPc = "llm" /\ llm_b
    /\ DebateSteps[stepIdx] = "B_review"
    /\ DebateStep("B_review", out, commit_ok)

\* Step 3: self.llm_a.invoke(llm_a_messages) with B's review appended
InvokeAFinal(out, commit_ok) ==
    /\ evPc = "llm" /\ llm_b
    /\ DebateSteps[stepIdx] = "A_final"
    /\ DebateStep("A_final", out, commit_ok)

\* Single LLM mode: evaluate_with_single_llm(self.llm_a, prompt, ...) and the rest
EvaluateSingle(out, commit_ok) ==
    LET exc == StepException("A_single", out)
        log == events \o CallEvents("A_single", exc)
    IN  /\ evPc = "llm" /\ ~llm_b
        /\ attempts' = InvokeAttemptLimit
        /\ normAttempts' = NormalizerRuns("A_single", out)
        /\ callRaised' = (exc # "none")
        /\ invokedWith' = [step |-> "A_single",
                           arg |-> InvokeArgument("A_single", evApp, llm_a_messages)]
        /\ llm_a_messages' = MessagesAfter("A_single", evApp, llm_a_messages, exc)
        /\ IF exc # "none"
           THEN EvaluationRaises("A_single", exc, log)
           ELSE PersistStep(StepResult("A_single", out), log, commit_ok)
        /\ UNCHANGED <<stepIdx, result_a_initial, result_b_review, result_a_final>>
        /\ UNCHANGED notEV

EVNext ==
    \/ \E cls \in Classifications : ClassifyAndUpdate(cls)
    \/ \E out \in InitialResponses : InvokeAInitial(out, TRUE)
    \/ \E out \in ReviewResponses, commit_ok \in BOOLEAN : InvokeBReview(out, commit_ok)
    \/ \E out \in FinalResponses, commit_ok \in BOOLEAN : InvokeAFinal(out, commit_ok)
    \/ \E out \in SingleResponses, commit_ok \in BOOLEAN : EvaluateSingle(out, commit_ok)

SpecEV == EVInit /\ [][EVNext]_vars

-----------------------------------------------------------------------------
(* Claims about the debate, the evaluation and the batch *)

Happened(ev, step) == \E i \in DOMAIN events : events[i] = [ev |-> ev, step |-> step]

\* The current or last evaluation has ended
Finished == evApp \in Applications /\ outcome[evApp] # "none"

\* C2: in debate mode the backends are invoked in the order A(initial), B(review),
\* A(final): B only after A's initial response has been parsed into a result,
\* A's final call only after B's review result exists, and the merge only after
\* every attempted step has ended.
C2_DebateOrder ==
    llm_b =>
        /\ \A i \in DOMAIN events : events[i].ev = "invoke" =>
              /\ events[i].step = "A_initial" =>
                    \A j \in 1..(i - 1) : events[j].ev # "invoke"
              /\ events[i].step = "B_review" =>
                    /\ \E j \in 1..(i - 1) : events[j] = [ev |-> "result", step |-> "A_initial"]
                    /\ result_a_initial.kind = "dict"
              /\ events[i].step = "A_final" =>
                    /\ \E j \in 1..(i - 1) : events[j] = [ev |-> "result", step |-> "B_review"]
                    /\ result_b_review # NoneResult
        /\ \A i \in DOMAIN events : events[i].ev = "merge" =>
              /\ i = Len(events)
              /\ \A j \in 1..(i - 1) : events[j].ev = "invoke" =>
                    /\ j + 1 < i
                    /\ events[j + 1].ev \in {"result", "raise"}
                    /\ events[j + 1].step = events[j].step

\* C2 witness: an evaluation that made all three calls and then merged.
C2_Witness ==
    /\ llm_b
    /\ Happened("invoke", "A_initial") /\ Happened("invoke", "B_review")
    /\ Happened("result", "A_final")
    /\ events # <<>> /\ events[Len(events)].ev = "merge"

\* C3: when B's review call raises, the debate catches it: no FINAL_A call is
\* made, the debate returns (initial, None, None), the merged result is
\* INITIAL_A's result unchanged, without step scores, and the failure of B does
\* not fail the evaluation (which persists that result unless a later step of
\* its own, the commit, fails).
C3_ReviewFailureFallsBack ==
    (llm_b /\ Happened("raise", "B_review")) =>
        /\ ~Happened("invoke", "A_final")
        /\ result_b_review = NoneResult
        /\ result_a_final = NoneResult
        /\ result = result_a_initial
        /\ \A k \in DOMAIN result.scores : result.scores[k].trail = "none"
        /\ failedAt \in {"none", "persist"}
        /\ failure = "none" =>
              /\ outcome[evApp] = "ok"
              /\ dbApp[evApp].ai_evaluation_detail = EvaluationDetail(result_a_initial)

\* C3 witness: B raised and the evaluation succeeded with INITIAL_A's result.
C3_Witness ==
    /\ llm_b /\ Happened("raise", "B_review")
    /\ Finished /\ outcome[evApp] = "ok"
    /\ result = result_a_initial /\ result.kind = "dict"

C5_CallsRetriedThreeTimes ==
    callRaised => attempts = 3

\* C7: a result that violates a validator rule is still graded and persisted,
\* and the evaluation succeeds (a failing commit aside).
C7_ValidationAdvisory ==
    (/\ Finished
     /\ result.kind = "dict"
     /\ ValidateEvaluationQuality(result, active_criteria, ValidCategories) # "passed"
     /\ failure # "CommitError") =>
        /\ outcome[evApp] = "ok"
        /\ dbApp[evApp].ai_evaluation_detail = EvaluationDetail(result)
        /\ dbApp[evApp].ai_grade = OverallGrade(result, active_criteria)

C15_PersistedResultIsValid ==
    \A a \in Applications : outcome[a] = "ok" =>
        LET d == dbApp[a].ai_evaluation_detail
        IN  /\ \A i \in DOMAIN active_criteria :
                  CanonicalKey(active_criteria[i].name) \in DOMAIN d.scores
            /\ d.summary = "list5"
            /\ \A k \in DOMAIN d.scores :
                  d.scores[k].kind = "score" /\ d.scores[k].score \in 1..5
            /\ d.cat \in ValidCategories

\* C16: in single mode one evaluate_application passes the rate limiter once,
\* invokes A once (the single-mode call), never invokes B and merges nothing;
\* when the call returns, the result that is graded is the normalized parse of
\* the response and its score entries carry no debate trail
C16_SingleModeOneCall ==
    [][\A out \in SingleResponses, commit_ok \in BOOLEAN :
          EvaluateSingle(out, commit_ok) =>
              /\ Len(events') = 3
              /\ events'[1] = [ev |-> "admit", step |-> "A_single"]
              /\ events'[2] = [ev |-> "invoke", step |-> "A_single"]
              /\ events'[3].step = "A_single"
              /\ events'[3].ev \in {"result", "raise"}
              /\ failedAt' \in {"none", "persist"} =>
                    /\ out.resp = "json"
                    /\ result' = NormalizeEvaluationResult(out.value)
                    /\ \A k \in DOMAIN ScoresOf(result') :
                          ScoresOf(result')[k].trail = "none"]_vars

\* A single-mode evaluation whose response carried the scores at top level was
\* normalized (the category is the normalizer's default) and persisted
C16_Witness ==
    /\ ~llm_b /\ Finished /\ outcome[evApp] = "ok"
    /\ Len(events) = 3
    /\ result.kind = "dict" /\ result.has_scores /\ result.cat = "bunryu"

\* C21: within one debate evaluation A's message list only grows; it is
\* [system, human(initial prompt), ai(A's initial response)] when B is invoked
\* and [system, human, ai, human(B's review)] when A is invoked for the final
\* decision; B is invoked with a single prompt, never with A's list; a new
\* evaluation starts from an empty list and no message of another
\* application's evaluation is in the list
C21_MessageHistory ==
    [][LET history == <<Msg("system", "system_message", evApp'),
                        Msg("human", "prompt_a_initial", evApp'),
                        Msg("ai", "content_a_initial", evApp')>>
       IN  /\ \/ evPc = "classify" /\ llm_a_messages' = <<>>
              \/ /\ Len(llm_a_messages) <= Len(llm_a_messages')
                 /\ SubSeq(llm_a_messages', 1, Len(llm_a_messages)) = llm_a_messages
           /\ \A i \in DOMAIN llm_a_messages' : llm_a_messages'[i].app = evApp'
           /\ invokedWith'.step = "B_review" =>
                 /\ llm_a_messages' = history
                 /\ invokedWith'.arg = <<Msg("prompt", "debate_prompt", evApp')>>
           /\ invokedWith'.step = "A_final" =>
                 /\ invokedWith'.arg =
                       Append(history, Msg("human", "feedback_prompt", evApp'))
                 /\ llm_a_messages' = invokedWith'.arg]_vars

\* The final invocation of A in the evaluation of the second application
C21_Witness ==
    /\ evApp = 2 /\ invokedWith.step = "A_final"
    /\ Len(llm_a_messages) = 4 /\ llm_a_messages[4].app = 2

\* C22: every backend invocation of an evaluation (single-mode A, A initial,
\* B review, A final) comes directly after exactly one wait_if_needed of the
\* evaluator's rate limiter, and every admission is followed by its
\* invocation, so admissions and attempted invocations are equal in number
C22_AdmitBeforeEveryInvoke ==
    /\ \A i \in DOMAIN events :
          events[i].ev = "invoke" =>
              /\ i > 1
              /\ events[i - 1] = [ev |-> "admit", step |-> events[i].step]
    /\ \A i \in DOMAIN events :
          events[i].ev = "admit" =>
              /\ i < Len(events)
              /\ events[i + 1] = [ev |-> "invoke", step |-> events[i].step]
    /\ Cardinality({i \in DOMAIN events : events[i].ev = "admit"})
          = Cardinality({i \in DOMAIN events : events[i].ev = "invoke"})

\* A debate that invoked A, B and A again, each after an admission
C22_Witness ==
    /\ llm_b /\ Finished
    /\ Cardinality({i \in DOMAIN events : events[i].ev = "invoke"}) = 3
    /\ Happened("admit", "A_final") /\ Happened("invoke", "A_final")

\* C23: every response that a later step uses has been normalized, A's initial
\* and final responses in the debate included: criterion objects at top level
\* have been moved under evaluation_scores before B's prompt is built and
\* before the merge
C23_ResponsesNormalizedBeforeUse ==
    /\ Happened("result", "A_initial") =>
          NormalizeEvaluationResult(result_a_initial) = result_a_initial
    /\ Happened("result", "B_review") =>
          NormalizeEvaluationResult(result_b_review) = result_b_review
    /\ Happened("result", "A_final") =>
          NormalizeEvaluationResult(result_a_final) = result_a_final

\* C27: when no criterion of the list contributes a weight to the weighted
\* score (it is 0.0 for lack of weight), the persisted grade is not the grade
\* of the average 0.0
C27_ZeroWeightNotGraded ==
    \A a \in Applications :
        LET sc == dbApp[a].ai_evaluation_detail.scores
        IN  ( /\ outcome[a] = "ok" /\ active_criteria # <<>> /\ DOMAIN sc # {}
              /\ \A i \in DOMAIN active_criteria : ~Contributes(sc, active_criteria[i]) )
            => dbApp[a].ai_grade # InlineGrade(0)

\* C28: evaluate_application always ends with True or False once the backends
\* have answered or failed: while it waits for a backend it is at one of
\* the debate's steps, and each answer or failure ends the evaluation or moves
\* it to the next step.  True goes with the commit: the application then
\* has status "ai_evaluated", a grade among S, A, B, C, D and exactly one new
\* EvaluationHistory row.  False goes with an exception: no history row is
\* added and grade and status stay as they were
C28_EvaluationOutcome ==
    /\ [](\A a \in Applications :
             /\ outcome[a] = "ok" =>
                   /\ dbApp[a].status = "ai_evaluated"
                   /\ dbApp[a].ai_grade \in {"S", "A", "B", "C", "D"}
                   /\ dbHist[a] = preHist[a] + 1
             /\ outcome[a] = "failed" =>
                   /\ dbHist[a] = preHist[a]
                   /\ dbApp[a].status = preApp[a].status
                   /\ dbApp[a].ai_grade = preApp[a].ai_grade
             /\ (a = evApp /\ outcome[a] # "none") =>
                   ((outcome[a] = "ok") <=> (failure = "none"))
             /\ (evPc = "llm" /\ evApp = a) =>
                   /\ outcome[a] = "none"
                   /\ stepIdx \in DOMAIN DebateSteps)
    /\ [][evPc = "llm" =>
             \/ evPc' # "llm" /\ outcome'[evApp] \in {"ok", "failed"}
             \/ evPc' = "llm" /\ evApp' = evApp /\ stepIdx' = stepIdx + 1
             \/ evPc' = "llm" /\ evApp' # evApp /\ outcome'[evApp] \in {"ok", "failed"}]_vars

\* An evaluation that returned True for one application and False, after a
\* failed commit, for the other
C28_Witness ==
    /\ evApp = 2 /\ outcome[1] = "ok" /\ outcome[2] = "failed"
    /\ failure = "CommitError" /\ dbApp[1].status = "ai_evaluated"

\* C9: after a failed batch step the application's persisted fields are what
\* they were when the step began, and it has no new EvaluationHistory row.
C9_FailedStepLeavesRowUntouched ==
    \A a \in Applications : outcome[a] = "failed" =>
        /\ dbApp[a] = preApp[a]
        /\ dbHist[a] = preHist[a]

-----------------------------------------------------------------------------
(* The three grade tables applied to bounded averages *)
MaxAverage == 6

\* Averages from -1.0 to MaxAverage, every float of the model in between
GrAverages == (0 - Pow2(FracBits))..(MaxAverage * Pow2(FracBits))

GRInit ==
    /\ fnArgs \in [score : GrAverages, other : GrAverages]
    /\ fnOut = <<>>
    /\ fnPc = "input"
    /\ RLIdle /\ WSIdle /\ MGIdle /\ EVIdle /\ TKIdle /\ THIdle

\* The three tables on one average
AllGrades(avg) ==
    [score_to_grade |-> ScoreToGrade(avg), overall |-> OverallGradeTable(avg),
     inline |-> InlineGrade(avg)]

GradeScores ==
    /\ fnPc = "input"
    /\ fnOut' = [score |-> AllGrades(fnArgs.score), other |-> AllGrades(fnArgs.other)]
    /\ fnPc' = "applied"
    /\ UNCHANGED fnArgs
    /\ UNCHANGED notFN

GRNext == GradeScores

SpecGR == GRInit /\ [][GRNext]_vars

GradeRank(g) ==
    IF g = "S" THEN 5 ELSE IF g = "A" THEN 4 ELSE IF g = "B" THEN 3
    ELSE IF g = "C" THEN 2 ELSE 1

\* C11: every average gets exactly one grade from the thresholds 4.5, 3.5, 2.5,
\* 1.5 (S, A, B, C, else D), a boundary value gets the higher grade, a higher
\* average never gets a lower grade, and the three copies of the table agree.
C11_GradeTable ==
    fnPc = "applied" =>
        LET x == fnArgs.score
            g == fnOut.score.score_to_grade
            u == Pow2(FracBits)
        IN  /\ (g = "S") = (2 * x >= 9 * u)
            /\ (g = "A") = (2 * x >= 7 * u /\ 2 * x < 9 * u)
            /\ (g = "B") = (2 * x >= 5 * u /\ 2 * x < 7 * u)
            /\ (g = "C") = (2 * x >= 3 * u /\ 2 * x < 5 * u)
            /\ (g = "D") = (2 * x < 3 * u)
            /\ fnOut.score.overall = g
            /\ fnOut.score.inline = g
            /\ fnArgs.other <= x =>
                  GradeRank(fnOut.other.score_to_grade) <= GradeRank(g)

\* C11 witness: exactly 3.5 graded A by all three tables, next to a lower
\* average with a lower grade.
C11_Witness ==
    /\ fnPc = "applied"
    /\ 2 * fnArgs.score = 7 * Pow2(FracBits)
    /\ fnOut.score = [score_to_grade |-> "A", overall |-> "A", inline |-> "A"]
    /\ fnArgs.other < fnArgs.score
    /\ fnOut.other.score_to_grade = "B"

-----------------------------------------------------------------------------
(* Token accounting: _log_token_usage at the three places that invoke a         *)
(* backend, get_token_usage_summary and reset_token_usage.                       *)
MaxInvokes == 3
MaxTokens  == 1

Backends  == {"llm_a", "llm_b"}
TkFields  == {"prompt_tokens", "completion_tokens", "total_tokens"}

ZeroCounters ==
    [prompt_tokens |-> 0, completion_tokens |-> 0, total_tokens |-> 0, api_calls |-> 0]

\* What llm.invoke does: it raises, or returns a response whose
\* response_metadata has 'token_usage' (has_usage) with some of the three keys
RaisedInvoke == [kind |-> "raise", has_usage |-> FALSE, present |-> {},
                 prompt_tokens |-> 0, completion_tokens |-> 0, total_tokens |-> 0]
BareResponse == [RaisedInvoke EXCEPT !.kind = "response"]
UsageResponses ==
    {[kind |-> "response", has_usage |-> TRUE, present |-> ks,
      prompt_tokens |-> p, completion_tokens |-> c, total_tokens |-> p + c] :
        ks \in SUBSET TkFields, p \in 1..MaxTokens, c \in {1}}
TkResponses == {RaisedInvoke, BareResponse} \cup UsageResponses

\* usage.get(key, 0)
UsageGet(resp, key) == IF key \in resp.present THEN resp[key] ELSE 0

\* token_key = "llm_a" if "LLM A" in llm_name else "llm_b"
TokenKey(llm_name) == IF llm_name = "LLM A" THEN "llm_a" ELSE "llm_b"

\* The calls of evaluate_with_single_llm: the backend object and the name passed
SingleLLMSites ==
    {[backend |-> "llm_a", llm_name |-> "LLM A"],
     [backend |-> "llm_b", llm_name |-> "LLM B"],
     [backend |-> "llm_b", llm_name |-> "LLM B (Initial)"]}

\* LLMEvaluator._log_token_usage
LogTokenUsage(tu, key, resp) ==
    IF ~resp.has_usage THEN tu
    ELSE [tu EXCEPT ![key] =
            [prompt_tokens     |-> @.prompt_tokens + UsageGet(resp, "prompt_tokens"),
             completion_tokens |-> @.completion_tokens + UsageGet(resp, "completion_tokens"),
             total_tokens      |-> @.total_tokens + UsageGet(resp, "total_tokens"),
             api_calls         |-> @.api_calls + 1]]

\* A summary that totals backend A only
TokenUsageSummary_OnlyA(tu) ==
    [llm_a |-> tu.llm_a, llm_b |-> tu.llm_b, total |-> tu.llm_a]

\* LLMEvaluator.get_token_usage_summary
TokenUsageSummary(tu) ==
    [llm_a |-> tu.llm_a, llm_b |-> tu.llm_b,
     total |-> [prompt_tokens     |-> tu.llm_a.prompt_tokens + tu.llm_b.prompt_tokens,
                completion_tokens |-> tu.llm_a.completion_tokens + tu.llm_b.completion_tokens,
                total_tokens      |-> tu.llm_a.total_tokens + tu.llm_b.total_tokens,
                api_calls         |-> tu.llm_a.api_calls + tu.llm_b.api_calls]]

\* The summary variable while no summary has just been returned
NoSummary == [llm_a |-> ZeroCounters, llm_b |-> ZeroCounters, total |-> ZeroCounters]

TKInit ==
    /\ token_usage = [b \in Backends |-> ZeroCounters]
    /\ tkInvoked = [b \in Backends |-> 0]
    /\ tkCarried = [b \in Backends |-> ZeroCounters]
    /\ tkBefore = token_usage
    /\ tkLast = "none"
    /\ tkSummary = NoSummary
    /\ RLIdle /\ WSIdle /\ MGIdle /\ EVIdle /\ FNIdle /\ THIdle

\* The history of an invocation of backend b that ended as resp
Recorded(b, resp) ==
    /\ tkInvoked' = IF resp.kind = "raise" THEN tkInvoked
                    ELSE [tkInvoked EXCEPT ![b] = @ + 1]
    /\ tkCarried' = IF resp.kind = "raise" THEN tkCarried
                    ELSE [tkCarried EXCEPT ![b] =
                            [prompt_tokens     |-> @.prompt_tokens + UsageGet(resp, "prompt_tokens"),
                             completion_tokens |-> @.completion_tokens + UsageGet(resp, "completion_tokens"),
                             total_tokens      |-> @.total_tokens + UsageGet(resp, "total_tokens"),
                             api_calls         |-> @.api_calls + 1]]
    /\ tkBefore' = token_usage
    /\ tkLast' = IF resp.kind = "raise" THEN "failed_invoke" ELSE "invoke"
    /\ tkSummary' = NoSummary

InvokesLeft == tkInvoked.llm_a + tkInvoked.llm_b < MaxInvokes

\* evaluate_with_single_llm: response = llm.invoke(prompt), then the log
InvokeViaSingleLLM(site, resp) ==
    /\ InvokesLeft
    /\ token_usage' = IF resp.kind = "raise" THEN token_usage
                      ELSE LogTokenUsage(token_usage, TokenKey(site.llm_name), resp)
    /\ Recorded(site.backend, resp)
    /\ UNCHANGED notTK

\* Steps 1 and 3 of the debate: self.llm_a.invoke(llm_a_messages), then the log
InvokeDebateA(resp) ==
    /\ InvokesLeft
    /\ token_usage' = IF resp.kind = "raise" THEN token_usage
                      ELSE LogTokenUsage(token_usage, "llm_a", resp)
    /\ Recorded("llm_a", resp)
    /\ UNCHANGED notTK

\* LLMEvaluator.get_token_usage_summary (evaluate_application calls it before
\* its commit)
GetTokenUsageSummary ==
    /\ tkSummary' = TokenUsageSummary(token_usage)
    /\ tkBefore' = token_usage
    /\ tkLast' = "summary"
    /\ UNCHANGED <<token_usage, tkInvoked, tkCarried>>
    /\ UNCHANGED notTK

\* LLMEvaluator.reset_token_usage
ResetTokenUsage ==
    /\ token_usage' = [b \in DOMAIN token_usage |-> ZeroCounters]
    /\ tkInvoked' = [b \in Backends |-> 0]
    /\ tkCarried' = [b \in Backends |-> ZeroCounters]
    /\ tkBefore' = token_usage
    /\ tkLast' = "reset"
    /\ tkSummary' = NoSummary
    /\ UNCHANGED notTK

TKNext ==
    \/ \E site \in SingleLLMSites, resp \in TkResponses : InvokeViaSingleLLM(site, resp)
    \/ \E resp \in TkResponses : InvokeDebateA(resp)
    \/ GetTokenUsageSummary
    \/ ResetTokenUsage

SpecTK == TKInit /\ [][TKNext]_vars

\* C12: for each backend, api_calls is the number of its invocations that
\* returned and the three token counters are the sums of the usage those
\* responses carried; nothing is counted under the other backend and a failed
\* invocation changes no counter.
C12_CountersMatchInvocations ==
    /\ \A b \in Backends :
          /\ token_usage[b].api_calls = tkInvoked[b]
          /\ \A f \in TkFields : token_usage[b][f] = tkCarried[b][f]
    /\ tkLast = "failed_invoke" => token_usage = tkBefore

CounterNames == TkFields \cup {"api_calls"}

\* C13: every counter only grows except under reset_token_usage, which sets all
\* eight to 0; get_token_usage_summary changes no counter and its totals are the
\* sums of the two backends' counters.
C13_CountersOnlyGrow ==
    /\ tkLast \in {"invoke", "failed_invoke"} =>
          \A b \in Backends : \A f \in CounterNames : token_usage[b][f] >= tkBefore[b][f]
    /\ tkLast = "reset" =>
          \A b \in Backends : \A f \in CounterNames : token_usage[b][f] = 0
    /\ tkLast = "summary" =>
          /\ token_usage = tkBefore
          /\ tkSummary.llm_a = token_usage.llm_a
          /\ tkSummary.llm_b = token_usage.llm_b
          /\ \A f \in CounterNames :
                tkSummary.total[f] = token_usage.llm_a[f] + token_usage.llm_b[f]

\* C13 witness: a summary taken after both backends have logged tokens.
C13_Witness ==
    /\ tkLast = "summary"
    /\ token_usage.llm_a.total_tokens > 0
    /\ token_usage.llm_b.total_tokens > 0
    /\ tkSummary.total.api_calls >= 2

-----------------------------------------------------------------------------
(* _extract_json_from_text on model text.  A text is a sequence of tokens:
   "F" a triple backtick, "json" the word json, "_" white space, "{" "}" ","
   the JSON punctuation, "k" a quoted key with its colon, "v" a number or
   literal, "q" a double quote, "x" any other run of characters *)

FenceJson == <<"F", "json">>
Fence     == <<"F">>

\* str.find(pat, from): the first index at or after from where pat occurs, 0
\* when there is none
Find(t, pat, from) ==
    LET hits == {i \in from..(Len(t) - Len(pat) + 1) :
                    SubSeq(t, i, i + Len(pat) - 1) = pat}
    IN  IF hits = {} THEN 0 ELSE CHOOSE i \in hits : \A j \in hits : i <= j

\* text.split(sep)[n] for n = 0, and for n = 1 when sep occurs in the text
SplitPart(t, sep, n) ==
    LET a    == Find(t, sep, 1)
        rest == IF n = 0 THEN t ELSE SubSeq(t, a + Len(sep), Len(t))
        b    == Find(rest, sep, 1)
    IN  IF b = 0 THEN rest ELSE SubSeq(rest, 1, b - 1)

\* str.strip()
Strip(t) ==
    LET ns == {i \in DOMAIN t : t[i] # "_"}
    IN  IF ns = {} THEN <<>>
        ELSE SubSeq(t, CHOOSE i \in ns : \A j \in ns : i <= j,
                       CHOOSE i \in ns : \A j \in ns : i >= j)

\* The first index at or after i that holds no white space
SkipWs(t, i) ==
    LET ns == {j \in i..Len(t) : t[j] # "_"}
    IN  IF ns = {} THEN Len(t) + 1 ELSE CHOOSE j \in ns : \A m \in ns : j <= m

\* json.loads on a text: ValueEnd is the index after the JSON value that starts
\* at i (0 when there is none), MembersEnd the index after the members and the
\* closing brace of an object
RECURSIVE ValueEnd(_, _), MembersEnd(_, _)
ValueEnd(t, i) ==
    LET j == SkipWs(t, i)
    IN  IF j > Len(t) THEN 0
        ELSE IF t[j] = "v" THEN j + 1
        ELSE IF t[j] = "q"
             THEN LET c == Find(t, <<"q">>, j + 1) IN IF c = 0 THEN 0 ELSE c + 1
        ELSE IF t[j] = "{"
             THEN LET m == SkipWs(t, j + 1)
                  IN  IF m <= Len(t) /\ t[m] = "}" THEN m + 1 ELSE MembersEnd(t, m)
        ELSE 0
MembersEnd(t, i) ==
    LET j == SkipWs(t, i)
    IN  IF j > Len(t) \/ t[j] # "k" THEN 0
        ELSE LET e == ValueEnd(t, j + 1)
                 n == SkipWs(t, e)
             IN  IF e = 0 \/ n > Len(t) THEN 0
                 ELSE IF t[n] = "}" THEN n + 1
                 ELSE IF t[n] = "," THEN MembersEnd(t, n + 1)
                 ELSE 0

\* json.loads(candidate) does not raise
JsonLoads(t) ==
    LET e == ValueEnd(t, 1) IN e # 0 /\ SkipWs(t, e) > Len(t)

\* Where a match of json_pattern that opened before i ends: braces nest at
\* most one level inside the match; 0 when the pattern does not match
RECURSIVE PatternEnd(_, _, _)
PatternEnd(t, i, depth) ==
    IF i > Len(t) THEN 0
    ELSE IF t[i] = "{" THEN IF depth = 2 THEN 0 ELSE PatternEnd(t, i + 1, 2)
    ELSE IF t[i] = "}" THEN IF depth = 1 THEN i ELSE PatternEnd(t, i + 1, 1)
    ELSE PatternEnd(t, i + 1, depth)

\* Strategy 2: the first match of re.finditer that json.loads accepts, <<>>
\* when the loop ends without one
RECURSIVE FirstValidMatch(_, _)
FirstValidMatch(t, from) ==
    LET a == Find(t, <<"{">>, from)
        e == PatternEnd(t, a + 1, 1)
    IN  IF a = 0 THEN <<>>
        ELSE IF e = 0 THEN FirstValidMatch(t, a + 1)
        ELSE IF JsonLoads(SubSeq(t, a, e)) THEN SubSeq(t, a, e)
        ELSE FirstValidMatch(t, e + 1)

\* LLMEvaluator._extract_json_from_text
ExtractJsonFromText(t) ==
    LET braces == {i \in DOMAIN t : t[i] = "}"}
        first  == Find(t, <<"{">>, 1)
        last   == IF braces = {} THEN 0
                  ELSE CHOOSE i \in braces : \A j \in braces : i >= j
    IN  IF Find(t, FenceJson, 1) # 0
        THEN Strip(SplitPart(SplitPart(t, FenceJson, 1), Fence, 0))
        ELSE IF Find(t, Fence, 1) # 0 THEN Strip(SplitPart(t, Fence, 1))
        ELSE IF FirstValidMatch(t, 1) # <<>> THEN FirstValidMatch(t, 1)
        ELSE IF first # 0 /\ last > first THEN SubSeq(t, first, last)
        ELSE Strip(t)

\* JSON payloads: a flat object, the canonical nesting, and objects whose
\* string values hold a triple backtick or a fence with its tag
Payloads ==
    {<<"{", "k", "v", "}">>,
     <<"{", "k", "v", ",", "k", "{", "k", "{", "k", "v", "}", "}", "}">>,
     <<"{", "k", "q", "x", "q", "}">>,
     <<"{", "k", "q", "x", "F", "x", "F", "q", ",", "k", "v", "}">>,
     <<"{", "k", "q", "F", "json", "q", "}">>}

\* What stands before and after the payload's block: nothing, prose, and
\* another fenced block with prose
Prefixes == {<<>>, <<"x", "_">>, <<"x", "_", "F", "x", "_", "x", "_", "F", "_", "x", "_">>}
Suffixes == {<<>>, <<"_", "x">>, <<"_", "x", "_", "F", "x", "_", "x", "_", "F">>}

\* The model text of a response: the payload in a ```json fence, in a plain
\* fence, or without a fence, between a prefix and a suffix
ResponseText(a) ==
    LET pad == IF a.padded THEN <<"_">> ELSE <<>>
        open == IF a.fence = "json" THEN FenceJson \o pad
                ELSE IF a.fence = "plain" THEN Fence \o <<"_">> ELSE <<>>
        close == IF a.fence = "none" THEN <<>> ELSE pad \o Fence
    IN  a.prefix \o open \o a.payload \o close \o a.suffix

EXInit ==
    /\ fnArgs \in [fence : {"json", "plain", "none"}, padded : BOOLEAN,
                   prefix : Prefixes, payload : Payloads, suffix : Suffixes]
    /\ fnOut = <<>>
    /\ fnPc = "input"
    /\ RLIdle /\ WSIdle /\ MGIdle /\ EVIdle /\ TKIdle /\ THIdle

\* json_text = self._extract_json_from_text(content)
ExtractJson ==
    /\ fnPc = "input"
    /\ fnOut' = [text |-> ExtractJsonFromText(ResponseText(fnArgs))]
    /\ fnPc' = "extracted"
    /\ UNCHANGED fnArgs
    /\ UNCHANGED notFN

EXNext == ExtractJson

SpecEX == EXInit /\ [][EXNext]_vars

\* C17: when the text wraps a JSON payload in a ```json fence the extractor
\* returns exactly the payload, without fence markers or surrounding text,
\* also when a string of the payload holds a triple backtick and when other
\* fenced blocks precede or follow
C17_FencedPayloadExtracted ==
    (fnPc = "extracted" /\ fnArgs.fence = "json") => fnOut.text = fnArgs.payload

\* C25: for a text without any fence that holds one valid JSON object, with or
\* without prose around it, the extractor returns the whole object from its
\* opening brace to the matching closing brace, whatever its nesting depth,
\* never an inner object
C25_UnfencedObjectExtracted ==
    LET t == ResponseText(fnArgs)
    IN  (fnPc = "extracted" /\ fnArgs.fence = "none" /\ Find(t, Fence, 1) = 0
         /\ JsonLoads(fnArgs.payload))
            => fnOut.text = fnArgs.payload

-----------------------------------------------------------------------------
(* _normalize_evaluation_result and _validate_evaluation_quality on parsed
   results *)

\* Parsed results with their criteria list (none, a criterion of the key table,
\* a criterion outside it with an upper-case letter): every recognized field
\* present or absent, the entries under evaluation_scores or at top level, and
\* results that have evaluation_scores and criterion-shaped objects at top level
ParsedResults ==
    LET entries == {<<>>, OneScore(NoScoreEntry), [k \in {"speed"} |-> ScoreEntry(3)],
                    [k \in {"innovation", "speed"} |->
                        IF k = "speed" THEN NoScoreEntry ELSE ScoreEntry(2)]}
                   \cup {OneScore(ScoreEntry(n)) : n \in {0, 1, 5, 6}}
                   \cup {OneScore([ScoreEntry(3) EXCEPT !.rationale = x]) :
                            x \in {"absent", "number", "empty", "short"}}
    IN  {[result |-> IF w THEN DictResult(c, i, "text", s, d, TRUE, e)
                     ELSE TopLevelResult(DictResult(c, i, "text", s, d, FALSE, <<>>), e),
          criteria |-> cl] :
            w \in BOOLEAN, c \in {"absent", "", "yecheuk", "gita"},
            i \in {"absent", "text"},
            s \in {"absent", "list0", "list2", "list5", "number"},
            d \in {"absent", "text"}, e \in entries,
            cl \in {<<>>, EvCriteria, <<[name |-> "Speed", weight |-> FloatOf(1)]>>}}
        \cup
        {[result |-> [DictResult(c, "text", "text", "list5", "absent", TRUE, e)
                      EXCEPT !.top = t],
          criteria |-> EvCriteria] :
            c \in {"absent", "yecheuk"},
            e \in {<<>>, [k \in {"innovation"} |-> ScoreEntry(2)]},
            t \in {[k \in {"innovation"} |-> ScoreEntry(4)],
                   [k \in {"speed"} |-> ScoreEntry(3)]}}

NVInit ==
    /\ fnArgs \in ParsedResults
    /\ fnOut = <<>>
    /\ fnPc = "input"
    /\ RLIdle /\ WSIdle /\ MGIdle /\ EVIdle /\ TKIdle /\ THIdle

\* result = self._normalize_evaluation_result(result, llm_name)
NormalizeResult ==
    /\ fnPc = "input"
    /\ fnOut' = [result |-> NormalizeEvaluationResult(fnArgs.result)]
    /\ fnPc' = "normalized"
    /\ UNCHANGED fnArgs
    /\ UNCHANGED notFN

\* self._validate_evaluation_quality(result, criteria_list or [], valid_categories)
ValidateResult ==
    /\ fnPc = "input"
    /\ fnOut' = [verdict |-> ValidateEvaluationQuality(fnArgs.result, fnArgs.criteria,
                                                       ValidCategories)]
    /\ fnPc' = "validated"
    /\ UNCHANGED fnArgs
    /\ UNCHANGED notFN

NVNext == NormalizeResult \/ ValidateResult

SpecNV == NVInit /\ [][NVNext]_vars

\* C18: for a parsed object without evaluation_scores that has a top-level
\* object with a score, the normalizer returns an object whose
\* evaluation_scores holds exactly those objects under their keys, and whose
\* ai_category, business_impact, technical_feasibility, five_line_summary and
\* debate_summary / final_decision are as they were in the input, absent when
\* they were absent
C18_NormalizerPreservesFields ==
    LET r    == fnArgs.result
        crit == {k \in DOMAIN r.top : r.top[k].kind = "score"}
    IN  (fnPc = "normalized" /\ ~r.has_scores /\ crit # {}) =>
            /\ fnOut.result.has_scores
            /\ fnOut.result.scores = [k \in crit |-> r.top[k]]
            /\ fnOut.result.cat = r.cat
            /\ fnOut.result.impact = r.impact
            /\ fnOut.result.feas = r.feas
            /\ fnOut.result.summary = r.summary
            /\ fnOut.result.debate = r.debate

\* C29: the normalizer is idempotent, normalizing its result again gives the
\* same result; it returns its input as it is when the input has
\* evaluation_scores, whatever sits at top level, and when no top-level object
\* has a score; and the input object is after the call what it was before
C29_NormalizerIdempotent ==
    [][(fnPc = "input" /\ fnPc' = "normalized") =>
          LET r    == fnArgs.result
              n    == fnOut'.result
              crit == {k \in DOMAIN r.top : HasScore(r.top[k])}
          IN  /\ NormalizeEvaluationResult(n) = n
              /\ (r.has_scores \/ crit = {}) => n = r
              /\ fnArgs' = fnArgs]_vars

\* A result with evaluation_scores and a criterion-shaped object at top level
\* went through the normalizer and came back as it was
C29_Witness ==
    /\ fnPc = "normalized"
    /\ fnArgs.result.has_scores
    /\ \E k \in DOMAIN fnArgs.result.top : HasScore(fnArgs.result.top[k])
    /\ fnOut.result = fnArgs.result

\* C19: the validator raises EvaluationQualityError exactly when a rule is
\* violated: a required field is missing or empty, the category is not a valid
\* one, the summary is not a list of 5, or a criterion of the list has no entry,
\* a score that is not an integer in 1..5, or a rationale that is not a string
\* of 10 characters or more; and it leaves the result as it was
C19_ValidatorRaisesIffViolated ==
    LET r == fnArgs.result
        violated ==
            \/ \E v \in {r.cat, r.impact, r.feas, r.summary} : v \in {"absent", "", "list0"}
            \/ ~r.has_scores \/ DOMAIN r.scores = {}
            \/ r.cat \notin ValidCategories
            \/ r.summary # "list5"
            \/ \E i \in DOMAIN fnArgs.criteria :
                  LET key == CanonicalKey(fnArgs.criteria[i].name)
                  IN  \/ key \notin DOMAIN r.scores
                      \/ r.scores[key].kind # "score"
                      \/ r.scores[key].score \notin 1..5
                      \/ r.scores[key].rationale # "long"
    IN  fnPc = "validated" =>
            /\ (fnOut.verdict = "EvaluationQualityError") = violated
            /\ fnOut.verdict \in {"passed", "EvaluationQualityError"}

\* C26: the validator derives the same key for a criterion as the prompt
\* builder and the weighted-score aggregator (the table's value, else the
\* lower-cased name), so a result with valid fields that holds, under the key
\* the prompt asks for, a score in 1..5 with a long rationale for every
\* criterion passes validation
C26_ValidatorUsesCanonicalKey ==
    LET r == fnArgs.result
        asked(c) ==
            /\ CanonicalKey(c.name) \in DOMAIN r.scores
            /\ r.scores[CanonicalKey(c.name)].kind = "score"
            /\ r.scores[CanonicalKey(c.name)].score \in 1..5
            /\ r.scores[CanonicalKey(c.name)].rationale = "long"
    IN  fnPc = "validated" =>
            /\ \A i \in DOMAIN fnArgs.criteria :
                  ValidatorKey(fnArgs.criteria[i].name) = CanonicalKey(fnArgs.criteria[i].name)
            /\ ( /\ r.has_scores /\ DOMAIN r.scores # {}
                  /\ r.cat \in ValidCategories /\ r.impact = "text"
                  /\ r.feas = "text" /\ r.summary = "list5"
                  /\ \A i \in DOMAIN fnArgs.criteria : asked(fnArgs.criteria[i]) )
                => fnOut.verdict = "passed"

-----------------------------------------------------------------------------
(* Two evaluations at once on the singleton llm_evaluator: the scheduler's     *)
(* job thread (BackgroundScheduler) and the thread of an HTTP-triggered run.   *)
(* Neither RateLimiter nor _log_token_usage takes a lock, so the statements of *)
(* wait_if_needed and the read-modify-write of each counter interleave.        *)
ThMaxCalls == 1    \* max_calls of the shared limiter
ThWindow   == 2    \* its time_window, in ticks
ThInvokes  == 2    \* backend invocations each thread makes
ThMaxTime  == 3    \* the clock stops advancing here

Threads == {"scheduler", "http"}

\* The counters _log_token_usage adds to, in the order of its statements
ThFields == <<"prompt_tokens", "completion_tokens", "total_tokens", "api_calls">>

\* The response every invocation returns, with its usage metadata
ThResponse ==
    [kind |-> "response", has_usage |-> TRUE, present |-> TkFields,
     prompt_tokens |-> 1, completion_tokens |-> 1, total_tokens |-> 2]

\* usage.get(field, 0), and 1 for api_calls
ThIncrement(f) == IF f = "api_calls" THEN 1 ELSE UsageGet(ThResponse, f)

thKeep == <<max_calls, time_window, rlRet, rlCall, tkBefore, tkLast, tkSummary>>

\* The thread's position after one evaluation's invocation is over
AfterInvocation(l) == IF l.left > 1 THEN "evaluate" ELSE "done"

THInit ==
    /\ now = 0 /\ max_calls = ThMaxCalls /\ time_window = ThWindow
    /\ calls = <<>> /\ admitted = <<>>
    /\ rlRaised = FALSE /\ rlRet = 0 /\ rlCall = NoCall
    /\ token_usage = [b \in Backends |-> ZeroCounters]
    /\ tkInvoked = [b \in Backends |-> 0]
    /\ tkCarried = [b \in Backends |-> ZeroCounters]
    /\ tkBefore = token_usage /\ tkLast = "none" /\ tkSummary = NoSummary
    /\ thPc = [t \in Threads |-> "evaluate"]
    /\ thLocal = [t \in Threads |->
                    [now |-> 0, wake |-> 0, slept |-> FALSE, field |-> 1,
                     loaded |-> 0, left |-> ThInvokes]]
    /\ WSIdle /\ MGIdle /\ EVIdle /\ FNIdle

\* The clock advances while the threads run
ClockTick ==
    /\ now < ThMaxTime
    /\ now' = now + 1
    /\ UNCHANGED <<calls, admitted, rlRaised, token_usage, tkInvoked, tkCarried,
                   thPc, thLocal, thKeep>>
    /\ UNCHANGED notTH

\* wait_if_needed: now = datetime.now()
ReadClock(t) ==
    /\ thPc[t] = "evaluate"
    /\ thLocal' = [thLocal EXCEPT ![t].now = now, ![t].slept = FALSE]
    /\ thPc' = [thPc EXCEPT ![t] = "prune"]
    /\ UNCHANGED <<now, calls, admitted, rlRaised, token_usage, tkInvoked, tkCarried,
                   thKeep>>
    /\ UNCHANGED notTH

\* while self.calls and self.calls[0] < now - timedelta(...): the test
PruneTest(t) ==
    /\ thPc[t] = "prune"
    /\ thPc' = [thPc EXCEPT ![t] =
                  IF calls # <<>> /\ Head(calls) < thLocal[t].now - time_window
                  THEN "popleft"
                  ELSE IF thLocal[t].slept THEN "append" ELSE "limit"]
    /\ UNCHANGED <<now, calls, admitted, rlRaised, token_usage, tkInvoked, tkCarried,
                   thLocal, thKeep>>
    /\ UNCHANGED notTH

\* self.calls.popleft(): whatever is the head by now; IndexError on an empty
\* deque, which ends this evaluation
PopLeft(t) ==
    /\ thPc[t] = "popleft"
    /\ IF calls = <<>>
       THEN /\ rlRaised' = TRUE
            /\ thPc' = [thPc EXCEPT ![t] = AfterInvocation(thLocal[t])]
            /\ thLocal' = [thLocal EXCEPT ![t].left = @ - 1]
            /\ UNCHANGED calls
       ELSE /\ calls' = Tail(calls)
            /\ thPc' = [thPc EXCEPT ![t] = "prune"]
            /\ UNCHANGED <<rlRaised, thLocal>>
    /\ UNCHANGED <<now, admitted, token_usage, tkInvoked, tkCarried, thKeep>>
    /\ UNCHANGED notTH

\* if len(self.calls) >= self.max_calls: sleep_time; if sleep_time > 0: time.sleep
\* (max_calls is at least 1 here, so a deque at its limit has a head)
LimitTest(t) ==
    /\ thPc[t] = "limit"
    /\ IF AtLimit(calls, max_calls)
          /\ MustSleep(SleepTime(calls, thLocal[t].now, time_window))
       THEN /\ thPc' = [thPc EXCEPT ![t] = "sleep"]
            /\ thLocal' = [thLocal EXCEPT ![t].wake =
                              thLocal[t].now
                              + SleepTime(calls, thLocal[t].now, time_window)
                              + SleepBuffer]
       ELSE /\ thPc' = [thPc EXCEPT ![t] = "append"]
            /\ UNCHANGED thLocal
    /\ UNCHANGED <<now, calls, admitted, rlRaised, token_usage, tkInvoked, tkCarried,
                   thKeep>>
    /\ UNCHANGED notTH

\* time.sleep returns; now = datetime.now(), then the second pruning loop
Wake(t) ==
    /\ thPc[t] = "sleep"
    /\ now >= thLocal[t].wake
    /\ thLocal' = [thLocal EXCEPT ![t].now = now, ![t].slept = TRUE]
    /\ thPc' = [thPc EXCEPT ![t] = "prune"]
    /\ UNCHANGED <<now, calls, admitted, rlRaised, token_usage, tkInvoked, tkCarried,
                   thKeep>>
    /\ UNCHANGED notTH

\* self.calls.append(datetime.now())
AppendCall(t) ==
    /\ thPc[t] = "append"
    /\ calls' = Append(calls, now)
    /\ admitted' = Append(admitted, now)
    /\ thPc' = [thPc EXCEPT ![t] = "invoke"]
    /\ UNCHANGED <<now, rlRaised, token_usage, tkInvoked, tkCarried, thLocal, thKeep>>
    /\ UNCHANGED notTH

\* response = llm.invoke(...), on backend A in both threads
ThreadInvoke(t) ==
    /\ thPc[t] = "invoke"
    /\ tkInvoked' = [tkInvoked EXCEPT !["llm_a"] = @ + 1]
    /\ tkCarried' = [tkCarried EXCEPT !["llm_a"] =
                        [f \in DOMAIN @ |-> @[f] + ThIncrement(f)]]
    /\ thLocal' = [thLocal EXCEPT ![t].field = 1]
    /\ thPc' = [thPc EXCEPT ![t] = "load"]
    /\ UNCHANGED <<now, calls, admitted, rlRaised, token_usage, thKeep>>
    /\ UNCHANGED notTH

\* self.token_usage[llm_name][field] += ...: the read of the counter
LoadCounter(t) ==
    /\ thPc[t] = "load"
    /\ thLocal' = [thLocal EXCEPT ![t].loaded =
                      token_usage["llm_a"][ThFields[thLocal[t].field]]]
    /\ thPc' = [thPc EXCEPT ![t] = "store"]
    /\ UNCHANGED <<now, calls, admitted, rlRaised, token_usage, tkInvoked, tkCarried,
                   thKeep>>
    /\ UNCHANGED notTH

\* self.token_usage[llm_name][field] += ...: the write of the sum
StoreCounter(t) ==
    LET f == ThFields[thLocal[t].field]
    IN  /\ thPc[t] = "store"
        /\ token_usage' = [token_usage EXCEPT !["llm_a"][f] =
                              thLocal[t].loaded + ThIncrement(f)]
        /\ IF thLocal[t].field < Len(ThFields)
           THEN /\ thLocal' = [thLocal EXCEPT ![t].field = @ + 1]
                /\ thPc' = [thPc EXCEPT ![t] = "load"]
           ELSE /\ thLocal' = [thLocal EXCEPT ![t].left = @ - 1]
                /\ thPc' = [thPc EXCEPT ![t] = AfterInvocation(thLocal[t])]
        /\ UNCHANGED <<now, calls, admitted, rlRaised, tkInvoked, tkCarried, thKeep>>
        /\ UNCHANGED notTH

THNext ==
    \/ ClockTick
    \/ \E t \in Threads : ReadClock(t)
    \/ \E t \in Threads : PruneTest(t)
    \/ \E t \in Threads : PopLeft(t)
    \/ \E t \in Threads : LimitTest(t)
    \/ \E t \in Threads : Wake(t)
    \/ \E t \in Threads : AppendCall(t)
    \/ \E t \in Threads : ThreadInvoke(t)
    \/ \E t \in Threads : LoadCounter(t)
    \/ \E t \in Threads : StoreCounter(t)

SpecTH == THInit /\ [][THNext]_vars

\* C30: with the two evaluations interleaved, the admissions recorded in any
\* trailing interval of length time_window (its far end excluded) never exceed
\* max_calls, as long as no admission was recorded at the instant another one
\* was exactly time_window old (the single-threaded case of C1); every
\* admission still inside the window is in the limiter's deque; and whenever
\* no thread is in the middle of logging a response the counters of backend A
\* equal the sums of the usage its responses carried
C30_ConcurrentLimiterAndCounters ==
    /\ (\A i, j \in DOMAIN admitted : admitted[j] # admitted[i] + time_window) =>
          \A t \in 0..now :
             Cardinality({i \in DOMAIN admitted :
                             admitted[i] > t - time_window /\ admitted[i] <= t})
                 <= max_calls
    /\ \A i \in DOMAIN admitted :
          admitted[i] >= now - time_window =>
              Cardinality({j \in DOMAIN calls : calls[j] = admitted[i]})
                  >= Cardinality({j \in DOMAIN admitted : admitted[j] = admitted[i]})
    /\ (\A t \in Threads : thPc[t] \notin {"load", "store"}) =>
          token_usage["llm_a"] = tkCarried["llm_a"]

====
